---- MODULE Spec2Model ----
(***************************************************************************)
(* Provisioning control plane of the Urumi platform: the store repository, *)
(* the orchestrator (createStore, provisionInBackground, deleteStore), the *)
(* store routes that drive it, and the part of the cluster they act on     *)
(* (one namespace per store).                                              *)
(*                                                                         *)
(* Every await of the code is a step boundary: a request handler or a      *)
(* background pipeline advances by one action per awaited operation, and   *)
(* the actions of different handlers and pipelines interleave freely.      *)
(* Repository statements succeed, except an INSERT on an id already        *)
(* present (primary key); every cluster call may throw, and the deadline   *)
(* of a provisioning run may pass at any moment of the run.                *)
(***************************************************************************)
EXTENDS Integers, Sequences, FiniteSets, TLC

(* ------------------------------ bounds --------------------------------- *)

\* requests of both kinds that arrive during a run of Spec
MaxRequests == 3
\* at most this many of them are POST /api/stores
NumCreateReqs == 2
\* at most this many of them are DELETE /api/stores/:id
NumDeleteReqs == 2
\* POST /api/stores requests that arrive during a run of SpecCap
RaceReqs == 3
\* largest elapsed time (Date.now() - startTime) of a pipeline run
MaxDuration == 1

(* ------------------------- program constants --------------------------- *)

\* orchestrator.ts: activeStores.length >= 10
ActiveCap == 10

\* a nullable column or optional field holds {} (NULL / undefined) or {value}
Null == {}

Some(v) == {v}

PENDING == "pending"
PROVISIONING == "provisioning"
READY == "ready"
FAILED == "failed"
DELETING == "deleting"
DELETED == "deleted"

StoreStatus == {PENDING, PROVISIONING, READY, FAILED, DELETING, DELETED}

NAMESPACE == "namespace"
DATABASE == "database"
APPLICATION == "application"
VALIDATION == "validation"

ProvisioningPhase == {NAMESPACE, DATABASE, APPLICATION, VALIDATION}

\* validTransitions of canTransitionTo
validTransitions ==
    [s \in StoreStatus |->
        CASE s = PENDING -> {PROVISIONING, FAILED, DELETING}
          [] s = PROVISIONING -> {READY, FAILED}
          [] s = READY -> {DELETING}
          [] s = FAILED -> {DELETING, PROVISIONING}
          [] s = DELETING -> {DELETED, FAILED}
          [] s = DELETED -> {}]

\* a table without the retry of a failed store
canTransitionTo_noRetry(current, target) ==
    /\ current \in DOMAIN validTransitions /\ target \in validTransitions[current]
    /\ ~(current = FAILED /\ target = PROVISIONING)

canTransitionTo(current, target) ==
    current \in DOMAIN validTransitions /\ target \in validTransitions[current]

isTerminalState(status) == status = DELETED

WOOCOMMERCE == "woocommerce"
MEDUSA == "medusa"

StoreEngine == {WOOCOMMERCE, MEDUSA}

STORE_CREATE_REQUESTED == "store.create.requested"
STORE_CREATE_STARTED == "store.create.started"
STORE_CREATE_SUCCEEDED == "store.create.succeeded"
STORE_CREATE_FAILED == "store.create.failed"
STORE_DELETE_REQUESTED == "store.delete.requested"
STORE_DELETE_SUCCEEDED == "store.delete.succeeded"

(* ------------------------------ identifiers ---------------------------- *)

\* records that exist before the run starts (only SpecCap starts with any)
PreIds == 1..ActiveCap
Max2(a, b) == IF a >= b THEN a ELSE b

\* the handlers of POST and DELETE requests, one per request of a run
CreateReqs == 1..Max2(NumCreateReqs, RaceReqs)
DeleteReqs == 1..NumDeleteReqs
\* ids produced by uuidv4().slice(0, 8) during the run: one per POST at most
FreshIds == (ActiveCap + 1)..(ActiveCap + Cardinality(CreateReqs))
Ids == PreIds \cup FreshIds
Durations == 0..MaxDuration

\* a namespace name that drops the id
getNamespaceName_fixed(storeId) == <<"store-", 0>>

getNamespaceName(storeId) == <<"store-", storeId>>

\* a store URL with another scheme
getStoreUrl_https(storeId) == <<"https://store-", storeId, ".storeDomain">>

getStoreUrl(storeId) == <<"http://store-", storeId, ".storeDomain">>

getAdminUrl(storeId) == <<getStoreUrl(storeId), "/wp-admin">>

NsNames == {getNamespaceName(i) : i \in Ids}

(* ------------------------------ the state ------------------------------ *)

VARIABLES
    db,      \* table stores: id -> row, or NoRow
    ns,      \* cluster: namespace name -> "absent" | "active" | "terminating"
    pipe,    \* provisionInBackground, one run per store id: its position and locals
    creq,    \* POST /api/stores handlers
    dreq,    \* DELETE /api/stores/:id handlers
    audit,   \* AuditLogger.entries
    todo,    \* the requests still to arrive: [creates |-> n, deletes |-> m]
    call     \* a call of a utility (retry, deadline, tenancy builder, audit reads)
             \* studied on its own: its inputs, position and outcome

vars == <<db, ns, pipe, creq, dreq, audit, todo, call>>

\* no utility call is studied
NoCall == [kind |-> "none"]

NoRow == [id |-> 0]

(* --------------------------- store repository -------------------------- *)

\* INSERT INTO stores (...): the columns not listed take their defaults
create(store) ==
    [id |-> store.id,
     namespace |-> store.namespace,
     engine |-> store.engine,
     status |-> store.status,
     phase |-> IF "phase" \in DOMAIN store /\ store.phase # Some("") THEN store.phase ELSE Null,
     url |-> Null,
     admin_url |-> Null,
     mysql_ready |-> store.mysqlReady,
     wordpress_ready |-> store.wordpressReady,
     error_message |-> Null,
     error_phase |-> Null,
     provisioning_duration_ms |-> Null,
     ready_at |-> Null,
     deleted_at |-> Null]

\* fieldMap of StoreRepository.update: the keys an update may write
fieldMap ==
    [status |-> "status",
     phase |-> "phase",
     url |-> "url",
     adminUrl |-> "admin_url",
     mysqlReady |-> "mysql_ready",
     wordpressReady |-> "wordpress_ready",
     errorMessage |-> "error_message",
     errorPhase |-> "error_phase",
     provisioningDurationMs |-> "provisioning_duration_ms",
     readyAt |-> "ready_at",
     deletedAt |-> "deleted_at"]

\* the key of `updates` written to column col, if any
KeysFor(updates, col) ==
    {k \in DOMAIN fieldMap \cap DOMAIN updates : fieldMap[k] = col}

\* an update that takes every key of the partial for a column
update_anyKey(row, updates) ==
    [col \in DOMAIN row |->
        IF col \in DOMAIN updates THEN updates[col] ELSE row[col]]

\* UPDATE stores SET <the mapped keys present in updates> WHERE id = ...
\* (a key present with value undefined writes NULL; Null stands for both)
update(row, updates) ==
    [col \in DOMAIN row |->
        IF KeysFor(updates, col) # {}
        THEN updates[CHOOSE k \in KeysFor(updates, col) : TRUE]
        ELSE row[col]]

\* UPDATE stores SET status = 'deleted', deleted_at = NOW()
softDelete(row) == [row EXCEPT !.status = DELETED, !.deleted_at = Some("now")]

\* (x as T) || undefined: NULL and the falsy value of the type ("" or 0) read as undefined
OrUndefined(x, falsy) == IF x = Null \/ x = Some(falsy) THEN Null ELSE x

rowToStore(row) ==
    [id |-> row.id,
     namespace |-> row.namespace,
     engine |-> row.engine,
     status |-> row.status,
     phase |-> OrUndefined(row.phase, ""),
     url |-> OrUndefined(row.url, <<>>),
     adminUrl |-> OrUndefined(row.admin_url, <<>>),
     mysqlReady |-> row.mysql_ready,
     wordpressReady |-> row.wordpress_ready,
     errorMessage |-> OrUndefined(row.error_message, ""),
     errorPhase |-> OrUndefined(row.error_phase, ""),
     provisioningDurationMs |-> OrUndefined(row.provisioning_duration_ms, 0),
     readyAt |-> row.ready_at,
     deletedAt |-> row.deleted_at]

Exists(i) == db[i] # NoRow

\* SELECT * FROM stores WHERE id = $1
findById(i) == IF Exists(i) THEN Some(rowToStore(db[i])) ELSE Null

\* SELECT * FROM stores WHERE status != 'deleted'
findAll == {rowToStore(db[i]) : i \in {j \in Ids : Exists(j) /\ db[j].status # DELETED}}

\* the filter of createStore over the listing
activeStores(allStores) ==
    {s \in allStores : s.status # FAILED /\ s.status # DELETED}


(* ------------------------------ audit log ------------------------------ *)

\* a record that puts the entry in front of the log
record_front(entries, action, storeId) ==
    <<[id |-> Len(entries) + 1, action |-> action, storeId |-> storeId]>> \o entries

\* an id that does not move
record_sameId(entries, action, storeId) ==
    Append(entries, [id |-> 1, action |-> action, storeId |-> storeId])

\* AuditLogger.record: entries.push({...entry, id: `audit-${++counter}`});
\* counter starts at 0 and only record changes it and entries, so it is the
\* number of entries
record(entries, action, storeId) ==
    Append(entries, [id |-> Len(entries) + 1, action |-> action, storeId |-> storeId])

(* ------------------------------- cluster ------------------------------- *)

\* coreApi().readNamespace: 404 -> null; a terminating namespace is still read
getNamespace(name) == IF ns[name] = "absent" THEN Null ELSE Some(name)

\* NamespaceService.createNamespace, when it does not throw: an existing
\* namespace is returned as it is, an absent one is created
createNamespace(name) ==
    IF getNamespace(name) # Null THEN ns ELSE [ns EXCEPT ![name] = "active"]

\* NamespaceService.deleteNamespace, when it does not throw: nothing to delete
\* when absent, else a foreground delete is started
deleteNamespace(name) ==
    IF getNamespace(name) = Null THEN ns ELSE [ns EXCEPT ![name] = "terminating"]

\* the namespace controller finishes a foreground delete
NamespaceGone(name) ==
    /\ ns[name] = "terminating"
    /\ ns' = [ns EXCEPT ![name] = "absent"]
    /\ UNCHANGED <<db, pipe, creq, dreq, audit, todo, call>>

(* ------------------------- POST /api/stores ---------------------------- *)

NoResult == [success |-> FALSE, error |-> "none"]

IdleCreate ==
    [pc |-> "idle", engine |-> WOOCOMMERCE, storeId |-> 0,
     result |-> NoResult, code |-> 0, success |-> FALSE]

\* a served request keeps the result of createStore and the answer of the route
Served(result, code, success) ==
    [pc |-> "done", engine |-> WOOCOMMERCE, storeId |-> 0,
     result |-> result, code |-> code, success |-> success]

\* res.status(202).json({ success: true, ... }) after createStore returned
Accepted(result) == Served(result, 202, TRUE)

\* requests are numbered in their order of arrival
NextCreate(r) ==
    /\ todo.creates > 0
    /\ creq[r].pc = "idle"
    /\ \A q \in CreateReqs : q < r => creq[q].pc # "idle"

\* ids are opaque and compared only for equality, so the ids of a run are
\* numbered in the order the generator first yields them: a draw is an id
\* drawn before (a collision) or the next id never drawn
Drawn ==
    {i \in FreshIds : Exists(i)} \cup {creq[r].storeId : r \in {q \in CreateReqs : creq[q].pc = "insert"}}

Undrawn == FreshIds \ Drawn

IdChoices ==
    Drawn \cup {i \in Undrawn : \A j \in Undrawn : i <= j}

\* the id a DELETE names: an id of the run (known or not), or an older store
\* (the older stores are interchangeable, the last of them stands for all)
DeleteChoices == IdChoices \cup {i \in {ActiveCap} : Exists(i)}

\* a cap test that counts the failed stores of the listing too
CapReached_unfiltered(allStores) == Cardinality(allStores) >= ActiveCap

\* the cap test of createStore on the listing it read
CapReached(allStores) == Cardinality(activeStores(allStores)) >= ActiveCap

\* router.post('/') and createStore up to the INSERT: a valid body arrives, the
\* engine guard runs, the listing is read and the active cap is tested; an
\* admitted request draws its id and issues the INSERT
createStoreCheck(r, engine, storeId) ==
    /\ NextCreate(r)
    /\ storeId \in IdChoices
    /\ engine = MEDUSA \/ CapReached(findAll) => storeId = CHOOSE i \in IdChoices : TRUE
    /\ todo' = [todo EXCEPT !.creates = @ - 1]
    /\ audit' = record(audit, STORE_CREATE_REQUESTED, 0)
    /\ creq' = [creq EXCEPT ![r] =
            IF engine = MEDUSA
            THEN Accepted([success |-> FALSE,
                           error |-> "MedusaJS engine is not yet implemented"])
            ELSE IF CapReached(findAll)
            THEN Accepted([success |-> FALSE, error |-> "Max stores limit reached"])
            ELSE [@ EXCEPT !.pc = "insert", !.engine = engine, !.storeId = storeId]]
    /\ UNCHANGED <<db, ns, pipe, dreq, call>>

\* a reservation that starts the record in phase database
NewStore_database(storeId, engine) ==
    [id |-> storeId,
     namespace |-> getNamespaceName(storeId),
     engine |-> engine,
     status |-> PROVISIONING,
     phase |-> Some(DATABASE),
     mysqlReady |-> FALSE,
     wordpressReady |-> FALSE]

\* the record createStore reserves
NewStore(storeId, engine) ==
    [id |-> storeId,
     namespace |-> getNamespaceName(storeId),
     engine |-> engine,
     status |-> PROVISIONING,
     phase |-> Some(NAMESPACE),
     mysqlReady |-> FALSE,
     wordpressReady |-> FALSE]

\* a run of provisionInBackground: its position, whether its deadline has
\* passed, and how the post-install hook of the run ended
IdlePipe == [pc |-> "none", expired |-> FALSE, hook |-> "none"]

\* createStore from the INSERT on: storeStorage.create, then the pipeline is
\* started (it runs to its first await), store.create.started is recorded and
\* the route answers 202. An id already present violates the primary key: the
\* INSERT throws and the route answers through errorHandler (500)
createStoreInsert(r) ==
    /\ creq[r].pc = "insert"
    /\ IF Exists(creq[r].storeId)
       THEN /\ creq' = [creq EXCEPT ![r] = Served(NoResult, 500, FALSE)]
            /\ UNCHANGED <<db, pipe, audit, todo>>
       ELSE /\ db' = [db EXCEPT ![creq[r].storeId] =
                        create(NewStore(creq[r].storeId, creq[r].engine))]
            /\ pipe' = [pipe EXCEPT ![creq[r].storeId] = [IdlePipe EXCEPT !.pc = "namespace"]]
            /\ audit' = record(audit, STORE_CREATE_STARTED, creq[r].storeId)
            /\ creq' = [creq EXCEPT ![r] = Accepted([success |-> TRUE, error |-> "none"])]
    /\ UNCHANGED <<ns, dreq, todo, call>>

(* ----------------------- provisionInBackground ------------------------- *)

\* an update without its WHERE clause
updateStore_all(storeId, updates) ==
    db' = [i \in Ids |-> IF Exists(i) THEN update(db[i], updates) ELSE db[i]]

\* storeStorage.update(storeId, updates): UPDATE ... WHERE id = storeId
updateStore(storeId, updates) ==
    db' = [db EXCEPT ![storeId] = IF Exists(storeId) THEN update(@, updates) ELSE @]

\* the pipeline moves on, or to its catch block when the awaited call threw
Goto(storeId, ok, next) ==
    pipe' = [pipe EXCEPT ![storeId].pc = IF ok THEN next ELSE "catch"]

\* the positions of a run at which createDeadline's clock still matters: up to
\* the update to READY, and not after a throw
Running == {"namespace", "checkpointDatabase", "database", "checkpointApplication",
            "application", "checkpointValidation", "validation"}

\* Date.now() >= absoluteDeadline becomes true
deadlineExpires(storeId) ==
    /\ pipe[storeId].pc \in Running
    /\ ~pipe[storeId].expired
    /\ pipe' = [pipe EXCEPT ![storeId].expired = TRUE]
    /\ UNCHANGED <<db, ns, creq, dreq, audit, todo, call>>

\* deadline.wrap(promise, operation): throws TimeoutError when the deadline has
\* passed before the promise settles; else the promise's outcome
wrap(storeId, ok) == ok /\ ~pipe[storeId].expired

\* workloads can be created only in a namespace that exists and is not being deleted
CanDeploy(storeId) == ns[getNamespaceName(storeId)] = "active"

\* Phase 1: deadline.wrap(namespaceService.createNamespace(...)); a throw comes
\* before the namespace is created or after it (quota, limits, policy)
phaseNamespace(storeId, ok, created) ==
    /\ pipe[storeId].pc = "namespace"
    /\ ok => created
    /\ ns' = IF created THEN createNamespace(getNamespaceName(storeId)) ELSE ns
    /\ Goto(storeId, wrap(storeId, ok), "checkpointDatabase")
    /\ UNCHANGED <<db, creq, dreq, audit, todo, call>>

checkpointDatabase(storeId) ==
    /\ pipe[storeId].pc = "checkpointDatabase"
    /\ updateStore(storeId, [phase |-> Some(DATABASE)])
    /\ Goto(storeId, TRUE, "database")
    /\ UNCHANGED <<ns, creq, dreq, audit, todo, call>>

\* a phase 2 that waits for the database without any timeout
phaseDatabase_noTimeout(storeId, ok) ==
    /\ pipe[storeId].pc = "database"
    /\ ok /\ CanDeploy(storeId)
    /\ Goto(storeId, wrap(storeId, ok), "checkpointApplication")
    /\ UNCHANGED <<db, ns, creq, dreq, audit, todo, call>>

\* Phase 2: mysqlService.deploy and waitForReady under the deadline
phaseDatabase(storeId, ok) ==
    /\ pipe[storeId].pc = "database"
    /\ ok => CanDeploy(storeId)
    /\ Goto(storeId, wrap(storeId, ok), "checkpointApplication")
    /\ UNCHANGED <<db, ns, creq, dreq, audit, todo, call>>

\* a checkpoint after phase 2 that records phase validation
checkpointApplication_skip(storeId) ==
    /\ pipe[storeId].pc = "checkpointApplication"
    /\ updateStore(storeId, [mysqlReady |-> TRUE, phase |-> Some(VALIDATION)])
    /\ Goto(storeId, TRUE, "application")
    /\ UNCHANGED <<ns, creq, dreq, audit, todo, call>>

checkpointApplication(storeId) ==
    /\ pipe[storeId].pc = "checkpointApplication"
    /\ updateStore(storeId, [mysqlReady |-> TRUE, phase |-> Some(APPLICATION)])
    /\ Goto(storeId, TRUE, "application")
    /\ UNCHANGED <<ns, creq, dreq, audit, todo, call>>

\* Phase 3: wordpressService.deploy and waitForReady under the deadline
phaseApplication(storeId, ok) ==
    /\ pipe[storeId].pc = "application"
    /\ ok => CanDeploy(storeId)
    /\ Goto(storeId, wrap(storeId, ok), "checkpointValidation")
    /\ UNCHANGED <<db, ns, creq, dreq, audit, todo, call>>

\* a checkpoint that moves the phase and leaves the flag
checkpointValidation_noFlag(storeId) ==
    /\ pipe[storeId].pc = "checkpointValidation"
    /\ updateStore(storeId, [phase |-> Some(VALIDATION)])
    /\ Goto(storeId, TRUE, "validation")
    /\ UNCHANGED <<ns, creq, dreq, audit, todo, call>>

checkpointValidation(storeId) ==
    /\ pipe[storeId].pc = "checkpointValidation"
    /\ updateStore(storeId, [wordpressReady |-> TRUE, phase |-> Some(VALIDATION)])
    /\ Goto(storeId, TRUE, "validation")
    /\ UNCHANGED <<ns, creq, dreq, audit, todo, call>>

\* an update to READY that leaves readyAt out
ReadyUpdate_noReadyAt(storeId, provisioningDuration) ==
    [status |-> READY,
     phase |-> Null,
     url |-> Some(getStoreUrl(storeId)),
     adminUrl |-> Some(getAdminUrl(storeId)),
     provisioningDurationMs |-> Some(provisioningDuration)]

\* the update to READY of provisionInBackground
ReadyUpdate(storeId, provisioningDuration) ==
    [status |-> READY,
     phase |-> Null,
     url |-> Some(getStoreUrl(storeId)),
     adminUrl |-> Some(getAdminUrl(storeId)),
     readyAt |-> Some("now"),
     provisioningDurationMs |-> Some(provisioningDuration)]

\* the steps of the hook after the pod lookup: pages, COD, sample products,
\* store settings, rewrite flush; 0 stands for no failing step
HookSteps == 1..5

\* a hook that lets the error of a failing step escape
setup_rethrow(podFound, failedStep) ==
    IF ~podFound THEN "skipped"
    ELSE IF failedStep \in HookSteps THEN "thrown"
    ELSE "completed"

\* WooCommerceSetupService.setup: returns early when no pod is found; an error
\* of any step is caught and logged; how the call ended
setup(podFound, failedStep) ==
    IF ~podFound THEN "skipped"
    ELSE IF failedStep \in HookSteps THEN "failed"
    ELSE "completed"

\* Phase 4: wooCommerceSetupService.setup (not under the deadline; it touches
\* neither the table nor the namespace), then the update to READY and
\* store.create.succeeded; a throw of the hook would reach the catch block
phaseValidation(storeId, provisioningDuration, podFound, failedStep) ==
    /\ pipe[storeId].pc = "validation"
    /\ LET outcome == setup(podFound, failedStep)
       IN IF outcome = "thrown"
          THEN /\ Goto(storeId, FALSE, "done")
               /\ UNCHANGED <<db, audit>>
          ELSE /\ updateStore(storeId, ReadyUpdate(storeId, provisioningDuration))
               /\ audit' = record(audit, STORE_CREATE_SUCCEEDED, storeId)
               /\ pipe' = [pipe EXCEPT ![storeId].pc = "done", ![storeId].hook = outcome]
    /\ UNCHANGED <<ns, creq, dreq, todo, call>>

\* the update to FAILED of provisionInBackground
FailedUpdate(errorMessage, failedPhase) ==
    [status |-> FAILED,
     errorMessage |-> Some(errorMessage),
     errorPhase |-> failedPhase]

\* a failed phase that is always the first one
PhaseOf_first(found) == Some(NAMESPACE)

\* currentStore?.phase
PhaseOf(found) == IF found = Null THEN Null ELSE (CHOOSE s \in found : TRUE).phase

\* error.message of the error caught: the TimeoutError of the deadline when
\* the deadline had passed (it is not consulted after the throw), else the
\* error of the cluster call
ErrorMessage(storeId) ==
    IF pipe[storeId].expired THEN "Deadline exceeded for operation" ELSE "error.message"

\* catch: the record is read for its phase (only this run writes phase, so
\* the read and the update that follows see the same phase), updated to
\* FAILED, and store.create.failed is recorded
catchFailed(storeId) ==
    /\ pipe[storeId].pc = "catch"
    /\ updateStore(storeId, FailedUpdate(ErrorMessage(storeId), PhaseOf(findById(storeId))))
    /\ audit' = record(audit, STORE_CREATE_FAILED, storeId)
    /\ Goto(storeId, TRUE, "cleanup")
    /\ UNCHANGED <<ns, creq, dreq, todo, call>>

\* cleanup: namespaceService.deleteNamespace(namespace), its errors only logged
cleanup(storeId, ok) ==
    /\ pipe[storeId].pc = "cleanup"
    /\ ns' = IF ok THEN deleteNamespace(getNamespaceName(storeId)) ELSE ns
    /\ Goto(storeId, TRUE, "done")
    /\ UNCHANGED <<db, creq, dreq, audit, todo, call>>


(* ---------------------- DELETE /api/stores/:id -------------------------- *)

IdleDelete == [pc |-> "idle", storeId |-> 0, namespace |-> <<>>, code |-> 0]

\* the route's answer to the result of deleteStore
Answer(code) == [pc |-> "done", storeId |-> 0, namespace |-> <<>>, code |-> code]

\* requests are numbered in their order of arrival
NextDelete(d) ==
    /\ todo.deletes > 0
    /\ dreq[d].pc = "idle"
    /\ \A q \in DeleteReqs : q < d => dreq[q].pc # "idle"

\* a lookup without the guard on deleted records: only unknown ids are
\* turned away
deleteStoreFind_again(d, storeId) ==
    /\ NextDelete(d)
    /\ storeId \in DeleteChoices
    /\ todo' = [todo EXCEPT !.deletes = @ - 1]
    /\ LET found == findById(storeId)
           store == CHOOSE s \in found : TRUE
       IN IF found = Null
          THEN /\ dreq' = [dreq EXCEPT ![d] = Answer(404)]
               /\ audit' = record(audit, STORE_DELETE_REQUESTED, storeId)
          ELSE /\ dreq' = [dreq EXCEPT ![d] =
                    [pc |-> "deleting", storeId |-> storeId,
                     namespace |-> store.namespace, code |-> 0]]
               /\ audit' = record(audit, STORE_DELETE_REQUESTED, storeId)
    /\ UNCHANGED <<db, ns, pipe, creq, call>>

\* router.delete('/:id') and deleteStore up to the lookup: unknown -> 404,
\* already deleted -> success, else the update to DELETING is issued
deleteStoreFind(d, storeId) ==
    /\ NextDelete(d)
    /\ storeId \in DeleteChoices
    /\ todo' = [todo EXCEPT !.deletes = @ - 1]
    /\ LET found == findById(storeId)
           store == CHOOSE s \in found : TRUE
       IN IF found = Null
          THEN /\ dreq' = [dreq EXCEPT ![d] = Answer(404)]
               /\ audit' = record(audit, STORE_DELETE_REQUESTED, storeId)
          ELSE IF store.status = DELETED
          THEN /\ dreq' = [dreq EXCEPT ![d] = Answer(200)]
               /\ audit' = record(record(audit, STORE_DELETE_REQUESTED, storeId),
                                  STORE_DELETE_SUCCEEDED, storeId)
          ELSE /\ dreq' = [dreq EXCEPT ![d] =
                    [pc |-> "deleting", storeId |-> storeId,
                     namespace |-> store.namespace, code |-> 0]]
               /\ audit' = record(audit, STORE_DELETE_REQUESTED, storeId)
    /\ UNCHANGED <<db, ns, pipe, creq, call>>

\* the step of deleteStore after an awaited call: on, or into the catch block
Then(d, ok, next) ==
    dreq' = [dreq EXCEPT ![d] = [@ EXCEPT !.pc = IF ok THEN next ELSE "catch"]]

\* Mark as deleting
markDeleting(d) ==
    /\ dreq[d].pc = "deleting"
    /\ updateStore(dreq[d].storeId, [status |-> DELETING])
    /\ Then(d, TRUE, "deleteNamespace")
    /\ UNCHANGED <<ns, pipe, creq, audit, todo, call>>

\* namespaceService.deleteNamespace(store.namespace)
deleteStoreNamespace(d, ok) ==
    /\ dreq[d].pc = "deleteNamespace"
    /\ ns' = IF ok THEN deleteNamespace(dreq[d].namespace) ELSE ns
    /\ Then(d, ok, "waitForDeletion")
    /\ UNCHANGED <<db, pipe, creq, audit, todo, call>>

\* a wait that returns without having seen the namespace gone
waitForDeletion_noWait(d, ok) ==
    /\ dreq[d].pc = "waitForDeletion"
    /\ Then(d, ok, "softDelete")
    /\ UNCHANGED <<db, ns, pipe, creq, audit, todo, call>>

\* namespaceService.waitForDeletion(store.namespace, 60000): returns once a
\* read finds the namespace gone; throws on a failed read or after the timeout
waitForDeletion(d, ok) ==
    /\ dreq[d].pc = "waitForDeletion"
    /\ ok => getNamespace(dreq[d].namespace) = Null
    /\ Then(d, ok, "softDelete")
    /\ UNCHANGED <<db, ns, pipe, creq, audit, todo, call>>

\* storeStorage.softDelete(storeId); deleteStore returns success, the route
\* records store.delete.succeeded and answers 200
markDeleted(d) ==
    /\ dreq[d].pc = "softDelete"
    /\ db' = [db EXCEPT ![dreq[d].storeId] = IF Exists(dreq[d].storeId) THEN softDelete(@) ELSE @]
    /\ audit' = record(audit, STORE_DELETE_SUCCEEDED, dreq[d].storeId)
    /\ dreq' = [dreq EXCEPT ![d] = Answer(200)]
    /\ UNCHANGED <<ns, pipe, creq, todo, call>>

\* a revert that sets the status and leaves the message out
RevertUpdate_noMessage == [status |-> FAILED]

\* the update of the catch block of deleteStore
RevertUpdate ==
    [status |-> FAILED, errorMessage |-> Some("Deletion failed: error.message")]

\* Revert to failed state if deletion fails; the route answers 500
revertToFailed(d) ==
    /\ dreq[d].pc = "catch"
    /\ updateStore(dreq[d].storeId, RevertUpdate)
    /\ dreq' = [dreq EXCEPT ![d] = Answer(500)]
    /\ UNCHANGED <<ns, pipe, creq, audit, todo, call>>

(* --------------------------- specifications ---------------------------- *)

\* the requests of a run of Spec: both kinds, MaxRequests in all
Workloads ==
    {w \in [creates : 1..NumCreateReqs, deletes : 1..NumDeleteReqs] :
        w.creates + w.deletes = MaxRequests}

\* no request has arrived, no pipeline runs, nothing is logged
NoRequests ==
    /\ pipe = [i \in Ids |-> IdlePipe]
    /\ creq = [r \in CreateReqs |-> IdleCreate]
    /\ dreq = [d \in DeleteReqs |-> IdleDelete]
    /\ audit = <<>>

Quiet == NoRequests /\ call = NoCall

\* a fresh deployment: an empty table, an empty cluster
Init ==
    /\ db = [i \in Ids |-> NoRow]
    /\ ns = [n \in NsNames |-> "absent"]
    /\ Quiet
    /\ todo \in Workloads

Create ==
    \/ \E r \in CreateReqs, engine \in StoreEngine, storeId \in FreshIds :
            createStoreCheck(r, engine, storeId)
    \/ \E r \in CreateReqs : createStoreInsert(r)

Provision ==
    \/ \E i \in Ids, ok, created \in BOOLEAN : phaseNamespace(i, ok, created)
    \/ \E i \in Ids : checkpointDatabase(i)
    \/ \E i \in Ids, ok \in BOOLEAN : phaseDatabase(i, ok)
    \/ \E i \in Ids : checkpointApplication(i)
    \/ \E i \in Ids, ok \in BOOLEAN : phaseApplication(i, ok)
    \/ \E i \in Ids : checkpointValidation(i)
    \/ \E i \in Ids, d \in Durations, podFound \in BOOLEAN, failedStep \in {0} \cup HookSteps :
            phaseValidation(i, d, podFound, failedStep)
    \/ \E i \in Ids : catchFailed(i)
    \/ \E i \in Ids, ok \in BOOLEAN : cleanup(i, ok)

Delete ==
    \/ \E d \in DeleteReqs, i \in Ids : deleteStoreFind(d, i)
    \/ \E d \in DeleteReqs : markDeleting(d)
    \/ \E d \in DeleteReqs, ok \in BOOLEAN : deleteStoreNamespace(d, ok)
    \/ \E d \in DeleteReqs, ok \in BOOLEAN : waitForDeletion(d, ok)
    \/ \E d \in DeleteReqs : markDeleted(d)
    \/ \E d \in DeleteReqs : revertToFailed(d)

Cluster == \E n \in NsNames : NamespaceGone(n)

Next == Create \/ Provision \/ Delete \/ Cluster

Spec == Init /\ [][Next]_vars

(* ------------------ a deployment that has stores already ---------------- *)

\* the row of a store whose pipeline ran to the end
ReadyRow(i) ==
    update(update(update(update(create(NewStore(i, WOOCOMMERCE)),
        [phase |-> Some(DATABASE)]),
        [mysqlReady |-> TRUE, phase |-> Some(APPLICATION)]),
        [wordpressReady |-> TRUE, phase |-> Some(VALIDATION)]),
        ReadyUpdate(i, 1))

\* the row of a store whose pipeline failed in phase database
FailedRow(i) ==
    update(update(create(NewStore(i, WOOCOMMERCE)), [phase |-> Some(DATABASE)]),
           FailedUpdate("error.message", Some(DATABASE)))

\* the row of a ready store that was deleted
DeletedRow(i) == softDelete(update(ReadyRow(i), [status |-> DELETING]))

\* the table after earlier runs: nf failed stores, nd deleted ones, the rest
\* of the ActiveCap first ids ready
Settled(nf, nd) ==
    [i \in Ids |->
        IF i \in FreshIds THEN NoRow
        ELSE IF i <= nf THEN FailedRow(i)
        ELSE IF i <= nf + nd THEN DeletedRow(i)
        ELSE ReadyRow(i)]

\* the process starts on a table and a cluster that hold settled stores (the
\* audit log lives in memory and starts empty); RaceReqs POST requests and
\* one DELETE arrive
InitCap ==
    /\ \E nf, nd \in 0..1 :
        /\ db = Settled(nf, nd)
        /\ ns = [n \in NsNames |->
                    IF \E i \in PreIds : n = getNamespaceName(i) /\ i > nf + nd
                    THEN "active" ELSE "absent"]
    /\ Quiet
    /\ todo = [creates |-> RaceReqs, deletes |-> 1]

\* the admission window: requests race on the cap while the pipelines they
\* have started have not advanced yet
NextCap == Create \/ Delete \/ Cluster

SpecCap == InitCap /\ [][NextCap]_vars

(* ------------------- provisioning runs and their deadline --------------- *)

\* a fresh deployment on which NumCreateReqs stores are requested and none
\* is deleted
InitRun ==
    /\ db = [i \in Ids |-> NoRow]
    /\ ns = [n \in NsNames |-> "absent"]
    /\ Quiet
    /\ todo = [creates |-> NumCreateReqs, deletes |-> 0]

Deadline == \E i \in Ids : deadlineExpires(i)

NextRun == Create \/ Provision \/ Deadline \/ Cluster

SpecRun == InitRun /\ [][NextRun]_vars

\* what run i does by itself when the cluster never answers: the timers of
\* withTimeout and of the readiness waits fire (a wrapped call then throws),
\* the exec timeouts bound the hook, and repository statements return
Timers(i) ==
    \/ phaseNamespace(i, FALSE, FALSE)
    \/ checkpointDatabase(i)
    \/ phaseDatabase(i, FALSE)
    \/ checkpointApplication(i)
    \/ phaseApplication(i, FALSE)
    \/ checkpointValidation(i)
    \/ \E d \in Durations : phaseValidation(i, d, FALSE, 0)
    \/ catchFailed(i)

\* the process keeps running: an awaited timer or repository statement of a
\* run is not postponed forever
LiveRun == SpecRun /\ \A i \in FreshIds : WF_vars(Timers(i))

(* ------------------------- utilities on their own ----------------------- *)

\* a fresh deployment that no request reaches: the state around a utility call
\* that is studied by itself
Empty ==
    /\ db = [i \in Ids |-> NoRow]
    /\ ns = [n \in NsNames |-> "absent"]
    /\ NoRequests
    /\ todo = [creates |-> 0, deletes |-> 0]

(* -------------------------------- retry --------------------------------- *)

\* largest maxRetries a call of withRetry is given
MaxRetriesTried == 6

\* HTTP status codes an answer of the cluster may carry
StatusCodes == {400, 404, 409, 429, 500, 502, 503, 504}

\* the digits of a status code as they appear in a message
Digits(code) ==
    CASE code = 400 -> "400" [] code = 404 -> "404" [] code = 409 -> "409"
      [] code = 429 -> "429" [] code = 500 -> "500" [] code = 502 -> "502"
      [] code = 503 -> "503" [] code = 504 -> "504"

\* parseInt(statusMatch[1], 10)
parseInt(digits) == CHOOSE code \in StatusCodes : Digits(code) = digits

\* the HttpError of @kubernetes/client-node: the status is in statusCode, the
\* message is generic
HttpError(code) == [message |-> <<"HTTP request failed">>, statusCode |-> Some(code)]

\* an error of the transport (no answer, so no status)
TransportError(errno) == [message |-> <<"connect", errno>>, statusCode |-> Null]

\* an error whose message spells a status out
CodedError(code) == [message |-> <<"status", "code:", Digits(code)>>, statusCode |-> Null]

\* an error whose message is one of the phrases
PhraseError(phrase) == [message |-> <<phrase>>, statusCode |-> Null]

\* the errors an operation under withRetry may throw; a message is the
\* sequence of its words
Errors ==
    {TransportError(errno) : errno \in {"ECONNREFUSED", "ETIMEDOUT", "ENOTFOUND"}}
        \cup {HttpError(code) : code \in StatusCodes}
        \cup {CodedError(code) : code \in StatusCodes}
        \cup {PhraseError(phrase) : phrase \in {"service unavailable", "not found"}}

\* error.message.includes(word)
includes(message, word) == \E k \in 1..Len(message) : message[k] = word

\* error.message.match(/code[:\s]+(\d{3})/i): the digits after "code", if any
statusMatch(message) ==
    {message[k + 1] : k \in {j \in 1..(Len(message) - 1) :
        message[j] \in {"code:", "code", "Code:", "CODE:"}
            /\ message[j + 1] \in {Digits(code) : code \in StatusCodes}}}

\* err.statusCode ?? err.response?.statusCode ?? err.body?.code (the errors
\* drawn carry the status in statusCode or nowhere)
getK8sErrorStatusCode(error) == error.statusCode

isK8sStatusCode(error, code) == getK8sErrorStatusCode(error) = Some(code)

isRetryableK8sError(error) ==
    IF \/ includes(error.message, "ECONNREFUSED")
       \/ includes(error.message, "ETIMEDOUT")
       \/ includes(error.message, "ENOTFOUND")
    THEN TRUE
    ELSE IF statusMatch(error.message) # {}
    THEN parseInt(CHOOSE digits \in statusMatch(error.message) : TRUE)
            \in {429, 500, 502, 503, 504}
    ELSE IF \/ includes(error.message, "too many requests")
            \/ includes(error.message, "service unavailable")
            \/ includes(error.message, "temporarily unavailable")
    THEN TRUE
    ELSE FALSE

DEFAULT_OPTIONS ==
    [maxRetries |-> 3,
     initialDelayMs |-> 1000,
     maxDelayMs |-> 30000,
     backoffMultiplier |-> 2,
     jitter |-> TRUE,
     shouldRetry |-> "() => true"]

\* opts.shouldRetry(lastError) for the two predicates the program passes
shouldRetry(opts, error) ==
    IF opts.shouldRetry = "isRetryableK8sError" THEN isRetryableK8sError(error) ELSE TRUE

RECURSIVE pow(_, _)
\* Math.pow on naturals
pow(base, exponent) == IF exponent = 0 THEN 1 ELSE base * pow(base, exponent - 1)

\* Math.min
min(a, b) == IF a <= b THEN a ELSE b

\* 0.75 + Math.random() * 0.5 in thousandths: the least value and the
\* greatest below 1.25
JitterFactors == {750, 1249}

\* a delay without the cap
delayMs_uncapped(opts, attempt, jitterFactor) ==
    IF opts.jitter
    THEN (opts.initialDelayMs * pow(opts.backoffMultiplier, attempt) * jitterFactor) \div 1000
    ELSE opts.initialDelayMs * pow(opts.backoffMultiplier, attempt)

\* the delay withRetry sleeps after the failure of attempt `attempt`:
\* Math.floor(Math.min(initial * multiplier^attempt, max) * jitterFactor)
delayMs(opts, attempt, jitterFactor) ==
    IF opts.jitter
    THEN (min(opts.initialDelayMs * pow(opts.backoffMultiplier, attempt), opts.maxDelayMs)
            * jitterFactor) \div 1000
    ELSE min(opts.initialDelayMs * pow(opts.backoffMultiplier, attempt), opts.maxDelayMs)

\* a call of withRetry(fn, options) before its first attempt
RetryCall(options) ==
    [kind |-> "withRetry", opts |-> options, attempt |-> 0, invocations |-> 0,
     lastError |-> Null, delay |-> 0, slept |-> 0, sleeps |-> 0, state |-> "running"]

\* a loop that goes on after a success
retryAttempt_again(outcome, jitterFactor) ==
    /\ call.kind = "withRetry" /\ call.state = "running"
    /\ call.attempt <= call.opts.maxRetries
    /\ call' =
        IF call.attempt = call.opts.maxRetries
        THEN [call EXCEPT !.state = IF outcome = Null THEN "returned" ELSE "thrown",
                          !.invocations = @ + 1, !.lastError = outcome]
        ELSE [call EXCEPT !.attempt = @ + 1, !.invocations = @ + 1]
    /\ UNCHANGED <<db, ns, pipe, creq, dreq, audit, todo>>

\* one turn of the loop of withRetry: fn is invoked and returns (outcome = {})
\* or throws an error; the error of the last attempt and one the predicate
\* rejects are thrown, any other is slept on and the loop goes on
retryAttempt(outcome, jitterFactor) ==
    /\ call.kind = "withRetry" /\ call.state = "running"
    /\ call.attempt <= call.opts.maxRetries
    /\ call' =
        IF outcome = Null
        THEN [call EXCEPT !.state = "returned", !.invocations = @ + 1]
        ELSE IF call.attempt = call.opts.maxRetries
        THEN [call EXCEPT !.state = "thrown", !.invocations = @ + 1, !.lastError = outcome]
        ELSE IF ~shouldRetry(call.opts, CHOOSE e \in outcome : TRUE)
        THEN [call EXCEPT !.state = "thrown", !.invocations = @ + 1, !.lastError = outcome]
        ELSE [call EXCEPT !.attempt = @ + 1, !.invocations = @ + 1, !.lastError = outcome,
                          !.delay = delayMs(call.opts, call.attempt, jitterFactor),
                          !.slept = @ + delayMs(call.opts, call.attempt, jitterFactor),
                          !.sleeps = @ + 1]
    /\ UNCHANGED <<db, ns, pipe, creq, dreq, audit, todo>>

\* withRetry is called with the default delays, with or without jitter, with
\* the default predicate or the one of the cluster services
InitRetry ==
    /\ Empty
    /\ \E m \in 0..MaxRetriesTried, j \in BOOLEAN,
          p \in {DEFAULT_OPTIONS.shouldRetry, "isRetryableK8sError"} :
            call = RetryCall([DEFAULT_OPTIONS EXCEPT
                        !.maxRetries = m, !.jitter = j, !.shouldRetry = p])

NextRetry ==
    \E outcome \in {Null} \cup {Some(e) : e \in Errors}, jitterFactor \in JitterFactors :
        retryAttempt(outcome, jitterFactor)

SpecRetry == InitRetry /\ [][NextRetry]_vars

(* ------------------------------- tenancy -------------------------------- *)

\* the objects createNamespace creates, in its order
TenancySteps == <<"createNamespace", "applyResourceQuota", "applyLimitRange", "applyNetworkPolicy">>

\* the creates of createNamespace that catch the 409 answer themselves
Catches409 == {"applyNetworkPolicy"}

\* the cluster without the namespace and without any object in it
NoObjects == [step \in {TenancySteps[k] : k \in 1..Len(TenancySteps)} |-> FALSE]

\* how the cluster answers one create request: it creates the object and says
\* so; it creates the object and the answer is lost on the way; it refuses
\* with 409 because the object exists; the connection is refused; it answers
\* 503
CreateAnswers == {"created", "lost", "conflict", "refused", "unavailable"}

\* what the client call throws for an answer ({} when it resolves)
Thrown(answer) ==
    CASE answer = "created" -> Null
      [] answer = "lost" -> Some(TransportError("ETIMEDOUT"))
      [] answer = "conflict" -> Some(HttpError(409))
      [] answer = "refused" -> Some(TransportError("ECONNREFUSED"))
      [] answer = "unavailable" -> Some(HttpError(503))

\* a call of createNamespace(name, labels) at its first statement
TenancyCall(objects, run) ==
    [kind |-> "createNamespace", pc |-> "getNamespace", attempt |-> 0, run |-> run,
     objects |-> objects, lastError |-> Null,
     opts |-> [DEFAULT_OPTIONS EXCEPT !.shouldRetry = "isRetryableK8sError"]]

\* the statement after a create that succeeded
AfterStep(step) ==
    CASE step = "createNamespace" -> "applyResourceQuota"
      [] step = "applyResourceQuota" -> "applyLimitRange"
      [] step = "applyLimitRange" -> "applyNetworkPolicy"
      [] step = "applyNetworkPolicy" -> "resolved"

\* const existing = await this.getNamespace(name): an existing namespace is
\* returned at once, an error of the read is thrown
tenancyGet(ok) ==
    /\ call.kind = "createNamespace" /\ call.pc = "getNamespace"
    /\ call' = [call EXCEPT !.pc = IF ~ok THEN "rejected"
                                   ELSE IF call.objects["createNamespace"] THEN "resolved"
                                   ELSE "createNamespace",
                            !.lastError = IF ok THEN Null ELSE Some(HttpError(500))]
    /\ UNCHANGED <<db, ns, pipe, creq, dreq, audit, todo>>

\* one attempt of a create under withRetry: the request reaches the cluster or
\* not, the callback catches 409 or not, and withRetry goes to the next
\* statement, retries or throws
tenancyCreate(answer) ==
    /\ call.kind = "createNamespace"
    /\ \E k \in 1..Len(TenancySteps) : call.pc = TenancySteps[k]
    /\ answer = "created" => ~call.objects[call.pc]
    /\ answer = "conflict" => call.objects[call.pc]
    /\ LET made == answer \in {"created", "lost"}
           error == IF answer = "conflict" /\ call.pc \in Catches409 THEN Null ELSE Thrown(answer)
           objects == [call.objects EXCEPT ![call.pc] = @ \/ made]
       IN  call' =
            IF error = Null
            THEN [call EXCEPT !.objects = objects, !.pc = AfterStep(call.pc), !.attempt = 0]
            ELSE IF \/ call.attempt = call.opts.maxRetries
                    \/ ~shouldRetry(call.opts, CHOOSE e \in error : TRUE)
            THEN [call EXCEPT !.objects = objects, !.pc = "rejected", !.lastError = error]
            ELSE [call EXCEPT !.objects = objects, !.attempt = @ + 1, !.lastError = error]
    /\ UNCHANGED <<db, ns, pipe, creq, dreq, audit, todo>>

\* createNamespace is called again for the same name after the first call
\* returned or threw
tenancyAgain ==
    /\ call.kind = "createNamespace"
    /\ call.pc \in {"resolved", "rejected"}
    /\ call.run = 1
    /\ call' = TenancyCall(call.objects, 2)
    /\ UNCHANGED <<db, ns, pipe, creq, dreq, audit, todo>>

\* the first call finds a cluster without the namespace
InitTenancy == Empty /\ call = TenancyCall(NoObjects, 1)

NextTenancy ==
    \/ \E ok \in BOOLEAN : tenancyGet(ok)
    \/ \E answer \in CreateAnswers : tenancyCreate(answer)
    \/ tenancyAgain

SpecTenancy == InitTenancy /\ [][NextTenancy]_vars

(* ------------------------------- deadline ------------------------------- *)

\* largest budget a deadline is created with, in clock ticks
MaxBudget == 3

\* the clock stops after this many ticks
MaxClock == 5

\* Math.max
max(a, b) == IF a >= b THEN a ELSE b

\* an expiry test that lets the very instant of the deadline pass
expired_late(d) == d.now > d.absoluteDeadline

\* get expired(): Date.now() >= absoluteDeadline
expired(d) == d.now >= d.absoluteDeadline

\* get remaining(): Math.max(0, absoluteDeadline - Date.now())
remaining(d) == max(0, d.absoluteDeadline - d.now)

\* no check made, no wrap called
NoCheck == [made |-> FALSE, at |-> 0, threw |-> FALSE]
NoWrap == [pc |-> "none", startedAt |-> 0, settleAt |-> 0, inner |-> "none",
           timeoutAt |-> 0, result |-> "none", endedAt |-> 0]

\* createDeadline(deadlineMs) at the instant of its creation; now is Date.now()
DeadlineCall(deadlineMs) ==
    [kind |-> "createDeadline", deadlineMs |-> deadlineMs, startTime |-> 0,
     absoluteDeadline |-> 0 + deadlineMs, now |-> 0, checked |-> NoCheck, wrapped |-> NoWrap]

\* a pending race of withTimeout has an event due at this instant
Due == /\ call.wrapped.pc = "racing"
       /\ call.now \in {call.wrapped.settleAt, call.wrapped.timeoutAt}

\* the clock advances; a settlement or a timer that is due runs first
clockTick ==
    /\ call.kind = "createDeadline"
    /\ call.now < MaxClock
    /\ ~Due
    /\ call' = [call EXCEPT !.now = @ + 1]
    /\ UNCHANGED <<db, ns, pipe, creq, dreq, audit, todo>>

\* deadline.check(operation)
check ==
    /\ call.kind = "createDeadline"
    /\ call' = [call EXCEPT !.checked = [made |-> TRUE, at |-> call.now, threw |-> expired(call)]]
    /\ UNCHANGED <<db, ns, pipe, creq, dreq, audit, todo>>

\* deadline.wrap(promise, operation) for an inner operation that settles at
\* settleAt with a value or an error: it throws at once when expired and
\* otherwise starts withTimeout(promise, remaining)
wrapCall(settleAt, inner) ==
    /\ call.kind = "createDeadline"
    /\ call.wrapped.pc = "none"
    /\ settleAt >= call.now
    /\ call' = [call EXCEPT !.wrapped =
            IF expired(call)
            THEN [pc |-> "done", startedAt |-> call.now, settleAt |-> settleAt, inner |-> inner,
                  timeoutAt |-> call.now, result |-> "TimeoutError", endedAt |-> call.now]
            ELSE [pc |-> "racing", startedAt |-> call.now, settleAt |-> settleAt, inner |-> inner,
                  timeoutAt |-> call.now + remaining(call), result |-> "none", endedAt |-> 0]]
    /\ UNCHANGED <<db, ns, pipe, creq, dreq, audit, todo>>

\* Promise.race: the inner promise settles first
innerSettles ==
    /\ call.kind = "createDeadline"
    /\ call.wrapped.pc = "racing"
    /\ call.now = call.wrapped.settleAt
    /\ call' = [call EXCEPT !.wrapped.pc = "done",
                            !.wrapped.result = call.wrapped.inner,
                            !.wrapped.endedAt = call.now]
    /\ UNCHANGED <<db, ns, pipe, creq, dreq, audit, todo>>

\* Promise.race: the timer of withTimeout fires first
timerFires ==
    /\ call.kind = "createDeadline"
    /\ call.wrapped.pc = "racing"
    /\ call.now = call.wrapped.timeoutAt
    /\ call' = [call EXCEPT !.wrapped.pc = "done",
                            !.wrapped.result = "TimeoutError",
                            !.wrapped.endedAt = call.now]
    /\ UNCHANGED <<db, ns, pipe, creq, dreq, audit, todo>>

InitDeadline == Empty /\ \E deadlineMs \in 0..MaxBudget : call = DeadlineCall(deadlineMs)

NextDeadline ==
    \/ clockTick
    \/ check
    \/ \E settleAt \in 0..MaxClock, inner \in {"value", "error"} : wrapCall(settleAt, inner)
    \/ innerSettles
    \/ timerFires

SpecDeadline == InitDeadline /\ [][NextDeadline]_vars

(* ------------------------------ audit reads ----------------------------- *)

\* at most this many entries are recorded in a run of SpecAudit
MaxAudit == 2

\* latest timestamp (new Date()) of an entry
MaxStamp == 1

\* the actions and stores SpecAudit records entries for
AuditActions == {STORE_CREATE_SUCCEEDED, STORE_DELETE_SUCCEEDED}
AuditStores == {1, 2}

\* filters of getEntries: each of storeId, action and limit is absent ({}) or
\* given
AuditFilters ==
    [storeId : {Null} \cup {Some(i) : i \in AuditStores},
     action : {Null, Some(STORE_CREATE_SUCCEEDED)},
     limit : {Null, Some(0), Some(1)}]

\* if (filters?.limit): an absent limit and the number 0 are falsy
Truthy(limit) == limit # Null /\ limit # Some(0)

\* results.filter(...) twice: the positions of the entries that pass
filtered(entries, filters) ==
    {k \in 1..Len(entries) :
        /\ filters.storeId # Null => Some(entries[k].storeId) = filters.storeId
        /\ filters.action # Null => Some(entries[k].action) = filters.action}

RECURSIVE sortRecent(_, _)
\* results.sort((a, b) => b.timestamp - a.timestamp): latest first, entries of
\* one timestamp in their order of insertion (the sort is stable)
sortRecent(positions, stamps) ==
    IF positions = {} THEN <<>>
    ELSE LET first == CHOOSE k \in positions : \A j \in positions :
                        \/ stamps[k] > stamps[j]
                        \/ stamps[k] = stamps[j] /\ k <= j
         IN  <<first>> \o sortRecent(positions \ {first}, stamps)

\* AuditLogger.getEntries(filters)
getEntries(entries, stamps, filters) ==
    LET sorted == sortRecent(filtered(entries, filters), stamps)
        results == [k \in 1..Len(sorted) |-> entries[sorted[k]]]
    IN  IF Truthy(filters.limit)
        THEN SubSeq(results, 1, min(CHOOSE n \in filters.limit : TRUE, Len(results)))
        ELSE results

\* AuditLogger.getStats()
getStats(entries) ==
    [totalActions |-> Len(entries),
     storesCreated |-> Cardinality({k \in 1..Len(entries) : entries[k].action = STORE_CREATE_SUCCEEDED}),
     storesDeleted |-> Cardinality({k \in 1..Len(entries) : entries[k].action = STORE_DELETE_SUCCEEDED}),
     storesFailed |-> Cardinality({k \in 1..Len(entries) : entries[k].action = STORE_CREATE_FAILED})]

\* limit of GET /api/audit when the query has none
DefaultLimit == 50

\* the query strings of GET /api/audit: each parameter is absent ({}) or a
\* string; limit is a string of digits or of something else
AuditQueries ==
    [storeId : {Null} \cup {Some(i) : i \in AuditStores},
     action : {Null, Some(STORE_CREATE_SUCCEEDED)},
     limit : {Null, Some("0"), Some("1"), Some("many")}]

\* limit ? parseInt(limit, 10) : 50; every string given is truthy, and a
\* string without digits parses to NaN, which getEntries takes as no limit
queryLimit(limit) ==
    IF limit = Null THEN Some(DefaultLimit)
    ELSE IF limit = Some("0") THEN Some(0)
    ELSE IF limit = Some("1") THEN Some(1)
    ELSE Null

\* the filters GET /api/audit passes to getEntries
routeFilters(query) ==
    [storeId |-> query.storeId, action |-> Null, limit |-> queryLimit(query.limit)]

\* nothing read yet
NotAsked == [via |-> "none", storeId |-> Null, action |-> Null, limit |-> Null]

\* the logger before its first entry: the clock, the timestamps of the
\* entries, and the last read with what it returned
AuditCall ==
    [kind |-> "auditLogger", now |-> 0, stamps |-> <<>>, results |-> <<>>,
     stats |-> getStats(<<>>), asked |-> NotAsked]

\* auditLogger.record(entry) by any caller, elapsed after the previous one;
\* the response of an earlier read is dropped from view
auditRecord(action, storeId, elapsed) ==
    /\ call.kind = "auditLogger"
    /\ Len(audit) < MaxAudit
    /\ call.now + elapsed <= MaxStamp
    /\ audit' = record(audit, action, storeId)
    /\ call' = [call EXCEPT !.now = @ + elapsed, !.stamps = Append(@, call.now + elapsed),
                            !.results = <<>>, !.stats = getStats(<<>>), !.asked = NotAsked]
    /\ UNCHANGED <<db, ns, pipe, creq, dreq, todo>>

\* auditLogger.getEntries(filters)
auditGetEntries(filters) ==
    /\ call.kind = "auditLogger"
    /\ call' = [call EXCEPT !.results = getEntries(audit, call.stamps, filters),
                            !.stats = getStats(<<>>),
                            !.asked = [via |-> "getEntries", storeId |-> filters.storeId,
                                       action |-> filters.action, limit |-> filters.limit]]
    /\ UNCHANGED <<db, ns, pipe, creq, dreq, audit, todo>>

\* auditLogger.getStats()
auditGetStats ==
    /\ call.kind = "auditLogger"
    /\ call' = [call EXCEPT !.stats = getStats(audit), !.results = <<>>,
                            !.asked = [NotAsked EXCEPT !.via = "getStats"]]
    /\ UNCHANGED <<db, ns, pipe, creq, dreq, audit, todo>>

\* GET /api/audit?storeId=..&action=..&limit=..
getAudit(query) ==
    /\ call.kind = "auditLogger"
    /\ call' = [call EXCEPT !.results = getEntries(audit, call.stamps, routeFilters(query)),
                            !.stats = getStats(audit),
                            !.asked = [via |-> "GET /api/audit", storeId |-> query.storeId,
                                       action |-> query.action, limit |-> query.limit]]
    /\ UNCHANGED <<db, ns, pipe, creq, dreq, audit, todo>>

InitAudit == Empty /\ call = AuditCall

NextAudit ==
    \/ \E action \in AuditActions, storeId \in AuditStores, elapsed \in 0..1 :
            auditRecord(action, storeId, elapsed)
    \/ \E filters \in AuditFilters : auditGetEntries(filters)
    \/ \E query \in AuditQueries : getAudit(query)
    \/ auditGetStats

SpecAudit == InitAudit /\ [][NextAudit]_vars

(* ----------------------------- repository ------------------------------- *)

\* the clock (new Date(), NOW()) stops after this many ticks
MaxTime == 1

\* ids of the records a run of SpecRepo works on
RepoIds == {1, 2}

\* the columns of the stores table that the request handlers never read back:
\* a row as INSERT INTO stores writes it, name and timestamps included
insertRow(store) ==
    create(store) @@
        [name |-> store.name, created_at |-> store.createdAt, updated_at |-> store.updatedAt]

\* rowToStore with the name and the two timestamps
toStore(row) ==
    rowToStore(row) @@
        [name |-> row.name, createdAt |-> row.created_at, updatedAt |-> row.updated_at]

\* the store createStore inserts at instant now
StoreAt(storeId, now) ==
    NewStore(storeId, "woocommerce") @@
        [name |-> <<"name", storeId>>, createdAt |-> now, updatedAt |-> now]

\* partial stores passed to update: the failure update, a field supplied with
\* no value, and keys update does not map
Partials ==
    {[status |-> FAILED, errorMessage |-> Some("error.message")],
     [phase |-> Null],
     [id |-> 9, name |-> <<"other">>, namespace |-> <<"store-", 9>>,
      engine |-> "medusa", createdAt |-> 9]}

\* StoreRepository.update on the table: the row of id, if any, takes the
\* mapped keys and a fresh updated_at
updateTable(table, id, updates, now) ==
    IF table[id] = NoRow THEN table
    ELSE [table EXCEPT ![id] = [update(table[id], updates) EXCEPT !.updated_at = now]]

\* StoreRepository.softDelete on the table
softDeleteTable(table, id, now) ==
    IF table[id] = NoRow THEN table
    ELSE [table EXCEPT ![id] = [softDelete(table[id]) EXCEPT !.deleted_at = Some(now),
                                                              !.updated_at = now]]

\* the listing excluding failed records too
Listed_active(table) ==
    {i \in DOMAIN table : table[i] # NoRow /\ table[i].status \notin {DELETED, FAILED}}

\* WHERE status != 'deleted'
Listed(table) == {i \in DOMAIN table : table[i] # NoRow /\ table[i].status # DELETED}

\* ORDER BY created_at DESC: the orders the database may return the listed
\* rows in (rows of one created_at in any order)
Orders(table) ==
    {order \in [1..Cardinality(Listed(table)) -> Listed(table)] :
        /\ \A j, k \in DOMAIN order : j # k => order[j] # order[k]
        /\ \A j, k \in DOMAIN order :
            j < k => table[order[j]].created_at >= table[order[k]].created_at}

\* StoreRepository.findAll for one of these orders
findAllStores(table, order) == [k \in DOMAIN order |-> toStore(table[order[k]])]

\* StoreRepository.findById on the table
findStore(table, id) == IF table[id] = NoRow THEN Null ELSE Some(toStore(table[id]))

\* the repository over an empty table: the clock, the table, the last method
\* called and what it returned
RepoCall ==
    [kind |-> "StoreRepository", now |-> 0, table |-> [i \in RepoIds |-> NoRow],
     op |-> [name |-> "none", id |-> 0, updates |-> <<>>], returned |-> Null]

\* time passes
repoTick ==
    /\ call.kind = "StoreRepository"
    /\ call.now < MaxTime
    /\ call' = [call EXCEPT !.now = @ + 1]
    /\ UNCHANGED <<db, ns, pipe, creq, dreq, audit, todo>>

\* storeStorage.create(store) for an id not in the table
repoCreate(id) ==
    /\ call.kind = "StoreRepository"
    /\ call.table[id] = NoRow
    /\ call' = [call EXCEPT !.table[id] = insertRow(StoreAt(id, call.now)),
                            !.op = [name |-> "create", id |-> id, updates |-> <<>>],
                            !.returned = Some(StoreAt(id, call.now))]
    /\ UNCHANGED <<db, ns, pipe, creq, dreq, audit, todo>>

\* storeStorage.update(id, updates)
repoUpdate(id, updates) ==
    /\ call.kind = "StoreRepository"
    /\ call' = [call EXCEPT !.table = updateTable(call.table, id, updates, call.now),
                            !.op = [name |-> "update", id |-> id, updates |-> updates],
                            !.returned = findStore(updateTable(call.table, id, updates, call.now), id)]
    /\ UNCHANGED <<db, ns, pipe, creq, dreq, audit, todo>>

\* storeStorage.findById(id)
repoFindById(id) ==
    /\ call.kind = "StoreRepository"
    /\ call' = [call EXCEPT !.op = [name |-> "findById", id |-> id, updates |-> <<>>],
                            !.returned = findStore(call.table, id)]
    /\ UNCHANGED <<db, ns, pipe, creq, dreq, audit, todo>>

\* storeStorage.findAll()
repoFindAll(order) ==
    /\ call.kind = "StoreRepository"
    /\ order \in Orders(call.table)
    /\ call' = [call EXCEPT !.op = [name |-> "findAll", id |-> 0, updates |-> <<>>],
                            !.returned = findAllStores(call.table, order)]
    /\ UNCHANGED <<db, ns, pipe, creq, dreq, audit, todo>>

\* storeStorage.softDelete(id)
repoSoftDelete(id) ==
    /\ call.kind = "StoreRepository"
    /\ call' = [call EXCEPT !.table = softDeleteTable(call.table, id, call.now),
                            !.op = [name |-> "softDelete", id |-> id, updates |-> <<>>],
                            !.returned = Null]
    /\ UNCHANGED <<db, ns, pipe, creq, dreq, audit, todo>>

InitRepo == Empty /\ call = RepoCall

NextRepo ==
    \/ repoTick
    \/ \E id \in RepoIds : repoCreate(id)
    \/ \E id \in RepoIds, updates \in Partials : repoUpdate(id, updates)
    \/ \E id \in RepoIds : repoFindById(id)
    \/ \E order \in UNION {[1..n -> RepoIds] : n \in 0..Cardinality(RepoIds)} : repoFindAll(order)
    \/ \E id \in RepoIds : repoSoftDelete(id)

SpecRepo == InitRepo /\ [][NextRepo]_vars

(* ---------------------------- state machine ----------------------------- *)

\* longest walk through the statuses
MaxWalk == 3

\* a status, the statuses it was reached through, and the answer of
\* canTransitionTo to the last transition asked for
MachineCall(status) ==
    [kind |-> "canTransitionTo", current |-> status, walk |-> <<status>>,
     from |-> status, target |-> "none", allowed |-> FALSE,
     terminal |-> isTerminalState(status)]

\* canTransitionTo(current, target) is asked and the status moves when the
\* answer is true
askTransition(target) ==
    /\ call.kind = "canTransitionTo"
    /\ Len(call.walk) < MaxWalk \/ ~canTransitionTo(call.current, target)
    /\ call' = IF canTransitionTo(call.current, target)
               THEN [call EXCEPT !.from = call.current, !.target = target, !.allowed = TRUE,
                                 !.current = target, !.walk = Append(@, target),
                                 !.terminal = isTerminalState(target)]
               ELSE [call EXCEPT !.from = call.current, !.target = target, !.allowed = FALSE]
    /\ UNCHANGED <<db, ns, pipe, creq, dreq, audit, todo>>

InitMachine == Empty /\ \E status \in StoreStatus : call = MachineCall(status)

NextMachine == \E target \in StoreStatus : askTransition(target)

SpecMachine == InitMachine /\ [][NextMachine]_vars

(* --------------------------- readiness waits ---------------------------- *)

\* the longest timeoutMs tried, in polling intervals of 2000 ms
MaxTimeout == 3

\* the largest replica count a read reports
MaxReplicas == 2

\* MySQLService.waitForReady reads the StatefulSet mysql,
\* WordPressService.waitForReady the Deployment wordpress
ReadyWaits == {"mysql", "wordpress"}

\* a count of the workload read: undefined, or a number
Counts == {Null} \cup {Some(n) : n \in 0..MaxReplicas}

\* what a read of the workload gives: a throw, or the body with
\* status?.readyReplicas and spec?.replicas
Reads ==
    [ok : {TRUE}, readyReplicas : Counts, replicas : Counts]
        \cup {[ok |-> FALSE, readyReplicas |-> Null, replicas |-> Null]}

\* value || fallback of a count: undefined and 0 are falsy
OrElse(value, fallback) ==
    IF value = Null \/ value = Some(0) THEN fallback ELSE CHOOSE n \in value : TRUE

\* readyReplicas >= desiredReplicas of a read that did not throw
isReady(read) ==
    /\ read.ok
    /\ OrElse(read.readyReplicas, 0) >= OrElse(read.replicas, 1)

\* a wait just called: Date.now() - startTime is 0 and nothing was read
WaitCall(workload, timeoutMs) ==
    [kind |-> "waitForReady", workload |-> workload, timeoutMs |-> timeoutMs,
     elapsed |-> 0, polls |-> 0,
     lastRead |-> [ok |-> FALSE, readyReplicas |-> Null, replicas |-> Null],
     stalled |-> FALSE, outcome |-> "waiting"]

\* one turn of the loop: the loop condition held, the read settled after
\* took intervals; a ready read returns, any other read (a throw included) is
\* logged and followed by the sleep of one interval
waitPoll(read, took) ==
    /\ call.kind = "waitForReady"
    /\ call.outcome = "waiting" /\ ~call.stalled
    /\ call.elapsed < call.timeoutMs
    /\ call' = [call EXCEPT
                  !.polls = @ + 1,
                  !.lastRead = read,
                  !.elapsed = IF isReady(read) THEN @ + took ELSE @ + took + 1,
                  !.outcome = IF isReady(read) THEN "returned" ELSE "waiting"]
    /\ UNCHANGED <<db, ns, pipe, creq, dreq, audit, todo>>

\* the loop condition fails: throw new Error(`... not ready after ${timeoutMs}ms`)
\* one turn of the loop whose read never settles: the await of
\* readNamespacedStatefulSet / readNamespacedDeployment has no timeout of its
\* own and the loop condition is only tested between reads
waitStalls ==
    /\ call.kind = "waitForReady"
    /\ call.outcome = "waiting" /\ ~call.stalled
    /\ call.elapsed < call.timeoutMs
    /\ call' = [call EXCEPT !.polls = @ + 1, !.stalled = TRUE]
    /\ UNCHANGED <<db, ns, pipe, creq, dreq, audit, todo>>

waitThrow ==
    /\ call.kind = "waitForReady"
    /\ call.outcome = "waiting" /\ ~call.stalled
    /\ ~(call.elapsed < call.timeoutMs)
    /\ call' = [call EXCEPT !.outcome = "thrown"]
    /\ UNCHANGED <<db, ns, pipe, creq, dreq, audit, todo>>

InitWait ==
    /\ Empty
    /\ \E workload \in ReadyWaits, timeoutMs \in 0..MaxTimeout :
         call = WaitCall(workload, timeoutMs)

NextWait ==
    \/ \E read \in Reads, took \in 0..1 : waitPoll(read, took)
    \/ waitStalls
    \/ waitThrow

SpecWait == InitWait /\ [][NextWait]_vars

\* the process keeps running: a read that settled resumes the loop and the
\* sleep's timer fires
LiveWait == SpecWait /\ WF_vars(NextWait)

(* ------------------ a wrapped step and the run around it ---------------- *)

\* the most readiness polls of one wait
MaxPolls == 2

\* the cluster calls of WordPressService.deploy, each awaited in turn
DeploySteps ==
    <<"createAdminSecret", "createPVC", "createDeployment", "createService",
      "createIngress">>

\* the cluster call a wrapped step issues next
nextCall(op, step) == IF op = "deploy" THEN DeploySteps[step] ELSE "readDeployment"

\* the wrapped step after its call was answered: the deploy rejects when a
\* create threw, goes on to its next create, and resolves after the last;
\* the wait resolves on a ready read, else polls again until its own timeout
\* is used up, and then rejects
afterCall(op, step, ok, ready) ==
    IF op = "deploy"
    THEN (IF ~ok THEN "rejected"
          ELSE IF step < Len(DeploySteps) THEN "running" ELSE "resolved")
    ELSE IF ok /\ ready THEN "resolved"
    ELSE IF step < MaxPolls THEN "running" ELSE "rejected"

\* the run awaits deadline.wrap(wordpressService.deploy(...)): the deploy has
\* been called and runs, nothing has failed yet
InflightCall(op) ==
    [kind |-> "deadline.wrap", op |-> op, step |-> 1, inner |-> "running",
     run |-> "awaiting", marked |-> FALSE, after |-> <<>>]

\* the calls the run has issued since its record was marked failed
issue(name) == IF call.marked THEN Append(call.after, name) ELSE call.after

\* the wrapped step issues its next cluster call and takes the answer. It
\* is a promise of its own: it runs whether or not the run still awaits it.
\* When it settles while the run awaits, Promise.race settles with it
innerCall(ok, ready) ==
    /\ call.kind = "deadline.wrap"
    /\ call.inner = "running"
    /\ LET end == afterCall(call.op, call.step, ok, ready)
       IN call' = [call EXCEPT
                     !.after = issue(nextCall(call.op, call.step)),
                     !.step = IF end = "running" THEN @ + 1 ELSE @,
                     !.inner = end,
                     !.run = IF @ # "awaiting" \/ end = "running" THEN @
                             ELSE IF end = "rejected" THEN "catch"
                             ELSE "resumed"]
    /\ UNCHANGED <<db, ns, pipe, creq, dreq, audit, todo>>

\* withTimeout's timer fires first: the race rejects with the TimeoutError,
\* the timer is cleared, and the wrapped promise is left as it is
timeoutFires ==
    /\ call.kind = "deadline.wrap"
    /\ call.run = "awaiting"
    /\ call' = [call EXCEPT !.run = "catch"]
    /\ UNCHANGED <<db, ns, pipe, creq, dreq, audit, todo>>

\* the deploy resolved: the run calls waitForReady and awaits it through
\* deadline.wrap
awaitNext ==
    /\ call.kind = "deadline.wrap"
    /\ call.run = "resumed" /\ call.op = "deploy"
    /\ call' = [call EXCEPT !.op = "waitForReady", !.step = 1,
                            !.inner = "running", !.run = "awaiting"]
    /\ UNCHANGED <<db, ns, pipe, creq, dreq, audit, todo>>

\* the catch block of provisionInBackground: the record is updated to failed
\* and store.create.failed is recorded
markFailed ==
    /\ call.kind = "deadline.wrap"
    /\ call.run = "catch"
    /\ call' = [call EXCEPT !.marked = TRUE, !.run = "cleanup"]
    /\ UNCHANGED <<db, ns, pipe, creq, dreq, audit, todo>>

\* the cleanup of the catch block: namespaceService.deleteNamespace
cleanupNamespace ==
    /\ call.kind = "deadline.wrap"
    /\ call.run = "cleanup"
    /\ call' = [call EXCEPT !.after = issue("deleteNamespace"), !.run = "done"]
    /\ UNCHANGED <<db, ns, pipe, creq, dreq, audit, todo>>

InitInflight == Empty /\ call = InflightCall("deploy")

NextInflight ==
    \/ \E ok, ready \in BOOLEAN : innerCall(ok, ready)
    \/ timeoutFires
    \/ awaitNext
    \/ markFailed
    \/ cleanupNamespace

SpecInflight == InitInflight /\ [][NextInflight]_vars

(* ------------------------------- claims -------------------------------- *)

Rows == {i \in Ids : Exists(i)}

\* the records that count against the cap
Active == {i \in Rows : db[i].status \notin {FAILED, DELETED}}

EndpointColumns == {"url", "admin_url", "ready_at", "provisioning_duration_ms"}

Logged(action, storeId) ==
    \E k \in 1..Len(audit) : audit[k].action = action /\ audit[k].storeId = storeId

\* C1: every change of a record's status, written by createStore, by the
\* pipeline or by deleteStore under any interleaving, is a transition of the
\* state-machine table
C1_OnlyTabledTransitions ==
    [][\A i \in Rows :
        db'[i].status # db[i].status =>
            \/ db[i].status = PENDING /\ db'[i].status \in {PROVISIONING, FAILED, DELETING}
            \/ db[i].status = PROVISIONING /\ db'[i].status \in {READY, FAILED}
            \/ db[i].status = READY /\ db'[i].status = DELETING
            \/ db[i].status = FAILED /\ db'[i].status \in {PROVISIONING, DELETING}
            \/ db[i].status = DELETING /\ db'[i].status \in {FAILED, DELETED}]_vars

\* C2: once a record's status is deleted, no later write changes it
C2_DeletedIsTerminal ==
    [][\A i \in Rows : db[i].status = DELETED => db'[i].status = DELETED]_vars

\* C3: a record marked deleted has no namespace in the cluster, whatever the
\* interleaving of the delete with the store's pipeline
C3_DeletedHasNoNamespace ==
    \A i \in Rows : db[i].status = DELETED => ns[db[i].namespace] = "absent"

\* C4: phase is non-null if and only if status is provisioning
C4_PhaseIffProvisioning ==
    \A i \in Rows : db[i].phase # Null <=> db[i].status = PROVISIONING

C7_NamespaceIsStoreId ==
    \A i \in Rows : db[i].id = i /\ db[i].namespace = <<"store-", i>>

\* C7: a record that went through the checkpoints, the update to READY and a
\* delete
C7_Witness ==
    \E i \in FreshIds :
        /\ Exists(i)
        /\ db[i].status = DELETED
        /\ db[i].ready_at # Null

\* C8: a create that passes the engine guard is rejected exactly when at
\* least 10 records are neither failed nor deleted when it reads the table;
\* the rejected call changes no record, starts no pipeline and logs only the
\* request, and is over; an admitted one goes on to the INSERT
C8_RejectedExactlyAtCap ==
    [][\A r \in CreateReqs :
        /\ creq[r].pc = "idle" /\ creq'[r].pc # "idle"
              /\ creq'[r].result.error # "MedusaJS engine is not yet implemented" =>
            /\ Cardinality(Active) >= 10 <=>
                    creq'[r].result.error = "Max stores limit reached"
            /\ Cardinality(Active) >= 10 =>
                    /\ creq'[r].pc = "done"
                    /\ ~creq'[r].result.success
                    /\ db' = db
                    /\ pipe' = pipe
                    /\ audit' = Append(audit, [id |-> Len(audit) + 1,
                                               action |-> "store.create.requested",
                                               storeId |-> 0])
            /\ Cardinality(Active) <= 9 => creq'[r].pc = "insert"
        /\ creq[r].pc = "done" => creq'[r] = creq[r]]_vars

\* C8: one request was rejected at the cap and another one admitted
C8_Witness ==
    \E r, q \in CreateReqs :
        /\ creq[r].result.error = "Max stores limit reached"
        /\ creq[q].result.success

\* C9: concurrent creates overshoot the cap by one store at most
C9_OvershootAtMostOne == Cardinality(Active) <= 11

\* C10: for a request that passed the engine guard, POST /api/stores answers
\* 202 with a success body only when the record was inserted and the pipeline
\* started, and a rejection at the cap is answered 409 without success
C10_CapAnswered409 ==
    \A r \in CreateReqs :
        creq[r].pc = "done"
            /\ creq[r].result.error # "MedusaJS engine is not yet implemented" =>
            /\ creq[r].code = 202 /\ creq[r].success => creq[r].result.success
            /\ creq[r].result.error = "Max stores limit reached" =>
                    creq[r].code = 409 /\ ~creq[r].success

\* C11: a create request whose engine is medusa is answered with a 400
\* validation error and is not told that provisioning was accepted; it
\* inserts no record and starts no pipeline
C11_MedusaAnswered400 ==
    \A r \in CreateReqs :
        creq[r].pc = "done"
            /\ creq[r].result.error = "MedusaJS engine is not yet implemented" =>
            creq[r].code = 400 /\ ~creq[r].success

\* the POST requests that createStore answered with success
Admitted == {r \in CreateReqs : creq[r].pc = "done" /\ creq[r].result.success}

C13_PhaseOrder ==
    /\ [](\A i \in Rows :
            /\ pipe[i].pc = "namespace" => db[i].phase = {"namespace"}
            /\ pipe[i].pc = "database" => db[i].phase = {"database"}
            /\ pipe[i].pc = "application" =>
                    db[i].phase = {"application"} /\ db[i].mysql_ready
            /\ pipe[i].pc = "validation" =>
                    db[i].phase = {"validation"} /\ db[i].mysql_ready /\ db[i].wordpress_ready)
    /\ [][\A i \in Rows :
            db'[i].phase # db[i].phase =>
                \/ db[i].phase = {"namespace"} /\ db'[i].phase = {"database"}
                \/ db[i].phase = {"database"} /\ db'[i].phase = {"application"}
                \/ db[i].phase = {"application"} /\ db'[i].phase = {"validation"}
                \/ db[i].phase = {"validation"} /\ db'[i].phase = {} /\ db'[i].status = "ready"]_vars

\* C13: a run has reached the post-install hook through the three checkpoints
C13_Witness ==
    \E i \in Rows : pipe[i].pc = "validation" /\ db[i].phase = {"validation"}

\* C14: a step of a run that throws (a cluster error, an exceeded deadline, a
\* readiness wait that gave up) leads to the catch block with the record's
\* phase still that of the step; the catch block leaves the record failed, with
\* an error message, with errorPhase equal to the phase the record had, and
\* records store.create.failed; a failure of phase database leaves
\* errorPhase = database with both readiness flags false
C14_FailureRecorded ==
    /\ [][\A i \in Rows :
            /\ pipe[i].pc \in {"namespace", "database", "application"} /\ pipe'[i].pc = "catch" =>
                    db'[i].phase = {pipe[i].pc}
            /\ pipe[i].pc = "catch" /\ pipe'[i].pc # "catch" =>
                    /\ db'[i].status = "failed"
                    /\ db'[i].error_message # {}
                    /\ db[i].phase # {}
                    /\ db'[i].error_phase = db[i].phase
                    /\ db'[i].mysql_ready = db[i].mysql_ready
                    /\ db'[i].wordpress_ready = db[i].wordpress_ready
                    /\ audit' = Append(audit, [id |-> Len(audit) + 1,
                                               action |-> "store.create.failed",
                                               storeId |-> i])]_vars
    /\ [](\A i \in Rows :
            /\ pipe[i].pc \in {"cleanup", "done"} /\ pipe[i].hook = "none" =>
                    db[i].status = "failed" /\ Logged("store.create.failed", i)
            /\ db[i].error_phase = {"database"} =>
                    ~db[i].mysql_ready /\ ~db[i].wordpress_ready)

\* C14: the database phase of a run failed and the record is failed with
\* errorPhase = database, no readiness flag set
C14_Witness ==
    \E i \in Rows :
        /\ db[i].status = "failed"
        /\ db[i].error_phase = {"database"}
        /\ ~db[i].mysql_ready /\ ~db[i].wordpress_ready
        /\ Logged("store.create.failed", i)

\* C15: whenever a record is failed after a provisioning failure, the store's
\* namespace is absent from the cluster (getNamespace finds nothing)
C15_FailedHasNoNamespace ==
    \A i \in Rows :
        db[i].status = "failed" /\ Logged("store.create.failed", i) =>
            getNamespace(db[i].namespace) = {}

\* C16: a run whose deadline passed before its update to READY never leaves
\* the record ready; once the run is over the record is failed with the
\* deadline's error
C16_ExpiredNeverReady ==
    \A i \in Rows :
        pipe[i].expired =>
            /\ db[i].status # "ready"
            /\ pipe[i].pc = "done" =>
                    /\ db[i].status = "failed"
                    /\ db[i].error_message = {"Deadline exceeded for operation"}

\* C17: every record that createStore inserted eventually has status ready
\* or failed, whatever the cluster does, as long as the timers of the run fire
\* and its repository statements return
C17_LeavesProvisioning ==
    \A i \in FreshIds :
        Exists(i) ~> (Exists(i) /\ db[i].status \in {"ready", "failed"})

\* C17: a run was ended by its deadline (a cluster call never returned) and
\* the record is failed
C17_Witness ==
    \E i \in Rows :
        /\ pipe[i].expired
        /\ db[i].status = "failed"
        /\ db[i].error_message = {"Deadline exceeded for operation"}

\* C18: in a run none of whose steps throws (every cluster call succeeds and
\* both workloads become ready in time), the record eventually is ready with
\* url http://store-<id>.<storeDomain>, adminUrl url + "/wp-admin", both
\* readiness flags true and phase cleared, and the audit log then holds the
\* store.create.requested, store.create.started and store.create.succeeded
\* entries of the creation
C18_SuccessReachesReady ==
    \A i \in FreshIds :
        [](pipe[i].pc # "catch") =>
            (Exists(i) ~>
                (/\ Exists(i)
                 /\ db[i].status = "ready"
                 /\ db[i].url = {<<"http://store-", i, ".storeDomain">>}
                 /\ db[i].admin_url = {<< <<"http://store-", i, ".storeDomain">>, "/wp-admin" >>}
                 /\ db[i].mysql_ready /\ db[i].wordpress_ready
                 /\ db[i].phase = {}
                 /\ Logged("store.create.requested", 0)
                 /\ Logged("store.create.started", i)
                 /\ Logged("store.create.succeeded", i)))

\* C18: a run went through without a throw and its record is ready, with the
\* hook completed and the three audit entries logged
C18_Witness ==
    \E i \in Rows :
        /\ pipe[i].pc = "done" /\ pipe[i].hook = "completed" /\ ~pipe[i].expired
        /\ db[i].status = "ready" /\ db[i].phase = {}
        /\ db[i].mysql_ready /\ db[i].wordpress_ready
        /\ \E a, b, c \in 1..Len(audit) :
            /\ a < b /\ b < c
            /\ audit[a].action = "store.create.requested"
            /\ audit[b].action = "store.create.started" /\ audit[b].storeId = i
            /\ audit[c].action = "store.create.succeeded" /\ audit[c].storeId = i

\* C19: the post-install hook returns normally however it goes (no pod found,
\* a step failing or timing out, all steps done), and the step that follows
\* the third checkpoint always is the update to READY, never the catch block
C19_HookNeverFails ==
    [][\A i \in Rows :
        pipe[i].pc = "validation" /\ pipe'[i].pc # "validation" =>
            /\ pipe'[i].pc = "done"
            /\ pipe'[i].hook \in {"completed", "skipped", "failed"}
            /\ db'[i].status = "ready"
            /\ db'[i].error_message = {}]_vars

\* C19: a record is ready after a run whose hook had a failing step, and
\* another one after a run whose hook found no pod
C19_Witness ==
    /\ \E i \in Rows : pipe[i].hook = "failed" /\ db[i].status = "ready"
    /\ \E i \in Rows : pipe[i].hook = "skipped" /\ db[i].status = "ready"

\* C20: a DELETE that names an unknown id is answered not found (404), one
\* that names a record whose status is deleted is answered success (200);
\* both are over with the lookup, having changed no record and called the
\* cluster not at all; any other DELETE goes on to the update to DELETING
C20_DeleteGuards ==
    [][\A d \in DeleteReqs :
        dreq[d].pc = "idle" /\ dreq'[d].pc # "idle" =>
            /\ audit'[Len(audit) + 1].action = "store.delete.requested"
            /\ LET storeId == audit'[Len(audit) + 1].storeId
               IN /\ ~Exists(storeId) =>
                        /\ dreq'[d].pc = "done" /\ dreq'[d].code = 404
                        /\ db' = db /\ ns' = ns /\ pipe' = pipe
                  /\ Exists(storeId) /\ db[storeId].status = "deleted" =>
                        /\ dreq'[d].pc = "done" /\ dreq'[d].code = 200
                        /\ db' = db /\ ns' = ns /\ pipe' = pipe
                  /\ Exists(storeId) /\ db[storeId].status # "deleted" =>
                        dreq'[d].pc = "deleting" /\ dreq'[d].storeId = storeId]_vars

\* C20: a store was deleted, no run has written to its record since, and a
\* second DELETE of it, arriving after the first had succeeded, was answered
\* success as well
C20_Witness ==
    \E i \in Rows :
        /\ db[i].status = "deleted"
        /\ ~Logged("store.create.failed", i) /\ ~Logged("store.create.succeeded", i)
        /\ \A d \in DeleteReqs : dreq[d].pc = "done" /\ dreq[d].code = 200
        /\ \E k \in 1..Len(audit), l \in 1..Len(audit) :
            /\ k < l /\ l < Len(audit)
            /\ audit[k].action = "store.delete.succeeded" /\ audit[k].storeId = i
            /\ audit[l].action = "store.delete.requested" /\ audit[l].storeId = i
            /\ audit[l + 1].action = "store.delete.succeeded" /\ audit[l + 1].storeId = i

\* C21: a delete of a ready store writes deleting, then deleted, and nothing
\* else unless a step throws; while the namespace delete, the wait and the
\* soft delete are in flight the record is deleting; the namespace starts
\* terminating only when the record is deleting; the record becomes deleted
\* only when the namespace is absent, and store.delete.succeeded is appended
\* in that step and in no other
C21_DeleteOrder ==
    /\ [](\A d \in DeleteReqs :
            dreq[d].storeId \in PreIds
                /\ dreq[d].pc \in {"deleteNamespace", "waitForDeletion", "softDelete"} =>
                db[dreq[d].storeId].status = "deleting")
    /\ [][\A i \in PreIds :
            /\ db'[i].status # db[i].status =>
                    \/ db[i].status = "ready" /\ db'[i].status = "deleting"
                    \/ db[i].status = "deleting" /\ db'[i].status \in {"deleted", "failed"}
            /\ ns[<<"store-", i>>] = "active" /\ ns'[<<"store-", i>>] # "active" =>
                    /\ ns'[<<"store-", i>>] = "terminating"
                    /\ db[i].status = "deleting"
            /\ db[i].status # "deleted" /\ db'[i].status = "deleted" =>
                    /\ ns[<<"store-", i>>] = "absent"
                    /\ audit' = Append(audit, [id |-> Len(audit) + 1,
                                               action |-> "store.delete.succeeded",
                                               storeId |-> i])
            /\ Len(audit') > Len(audit)
                    /\ audit'[Len(audit')].action = "store.delete.succeeded"
                    /\ audit'[Len(audit')].storeId = i =>
                    /\ db[i].status = "deleting" /\ db'[i].status = "deleted"
                    /\ ns[<<"store-", i>>] = "absent"]_vars

\* C21: a store that was ready is deleted, its namespace is gone and
\* store.delete.succeeded is logged for it
C21_Witness ==
    \E i \in PreIds :
        /\ db[i].status = "deleted" /\ db[i].ready_at # {}
        /\ ns[<<"store-", i>>] = "absent"
        /\ Logged("store.delete.succeeded", i)

\* C22: once a DELETE has been answered that the delete failed (the namespace
\* delete or the wait threw), a store.delete.failed entry is in the audit log
C22_DeleteFailureLogged ==
    \A d \in DeleteReqs :
        dreq[d].pc = "done" /\ dreq[d].code = 500 =>
            \E k \in 1..Len(audit) : audit[k].action = "store.delete.failed"

\* C23: a DELETE that finds the record already deleting is over with the
\* lookup: it goes on to no update of the status and to no namespace delete
C23_NoSecondTeardown ==
    [][\A d \in DeleteReqs :
        /\ dreq[d].pc = "idle" /\ dreq'[d].pc # "idle"
        /\ Exists(audit'[Len(audit) + 1].storeId)
        /\ db[audit'[Len(audit) + 1].storeId].status = "deleting"
        => dreq'[d].pc = "done"]_vars

\* C24: withRetry invokes the operation at most maxRetries + 1 times. Every
\* turn of its loop is one invocation and ends in one of three ways: the
\* invocation succeeded and withRetry returns, with no sleep; the invocation
\* failed on the last attempt or with an error the predicate rejects, and
\* withRetry throws that very error, with no sleep; the invocation failed with
\* an error the predicate accepts before the last attempt, and withRetry sleeps
\* once and goes on. After it returned or threw, nothing is invoked any more.
C24_RetryContract ==
    /\ [](call.kind = "withRetry" => call.invocations <= call.opts.maxRetries + 1)
    /\ [][call.kind = "withRetry" /\ call.state # "running" => call' = call]_vars
    /\ [][call.kind = "withRetry" /\ call' # call =>
            /\ call'.invocations = call.invocations + 1
            /\ \/ /\ call'.state = "returned"
                  /\ call'.sleeps = call.sleeps
                  /\ call'.lastError = call.lastError
               \/ /\ call'.state = "thrown"
                  /\ call'.sleeps = call.sleeps
                  /\ call'.lastError # Null
                  /\ \/ call'.invocations = call.opts.maxRetries + 1
                     \/ \E e \in call'.lastError : ~shouldRetry(call.opts, e)
               \/ /\ call'.state = "running"
                  /\ call'.sleeps = call.sleeps + 1
                  /\ call'.invocations <= call.opts.maxRetries
                  /\ call'.lastError # Null
                  /\ \A e \in call'.lastError : shouldRetry(call.opts, e)]_vars

\* every attempt of a call with three retries failed with a retryable error:
\* four invocations, three sleeps, the last error thrown
C24_Witness ==
    /\ call.kind = "withRetry"
    /\ call.opts.maxRetries = 3
    /\ call.opts.shouldRetry = "isRetryableK8sError"
    /\ call.state = "thrown"
    /\ call.invocations = 4
    /\ call.sleeps = 3
    /\ call.lastError = Some(TransportError("ECONNREFUSED"))

\* C25: the delay slept before the k-th retry is
\* min(initialDelayMs * backoffMultiplier^(k-1), maxDelayMs), scaled by a factor
\* between 0.75 and 1.25 when jitter is on and unscaled when it is off; with
\* the defaults a call that fails twice and then succeeds has slept between
\* 2250 ms and 3750 ms in total.
C25_BackoffDelay ==
    call.kind = "withRetry" =>
        /\ call.sleeps >= 1 =>
            IF call.opts.jitter
            THEN /\ 750 * min(call.opts.initialDelayMs
                                * pow(call.opts.backoffMultiplier, call.sleeps - 1),
                              call.opts.maxDelayMs) <= 1000 * call.delay
                 /\ 1000 * call.delay <=
                        1250 * min(call.opts.initialDelayMs
                                    * pow(call.opts.backoffMultiplier, call.sleeps - 1),
                                   call.opts.maxDelayMs)
            ELSE call.delay = min(call.opts.initialDelayMs
                                    * pow(call.opts.backoffMultiplier, call.sleeps - 1),
                                  call.opts.maxDelayMs)
        /\ /\ call.state = "returned"
           /\ call.invocations = 3
           /\ call.opts.jitter
           /\ call.opts.initialDelayMs = 1000
           /\ call.opts.backoffMultiplier = 2
           /\ call.opts.maxDelayMs = 30000
           => call.slept >= 2250 /\ call.slept <= 3750

\* a call with the defaults failed twice, slept the two shortest delays and
\* then succeeded
C25_Witness ==
    /\ call.kind = "withRetry"
    /\ call.opts.jitter
    /\ call.state = "returned"
    /\ call.invocations = 3
    /\ call.slept = 2250

\* C26: under the predicate of the cluster calls, withRetry gives up before
\* its last attempt only on an error that carries none of the status codes
\* 429, 500, 502, 503 and 504 (an error carrying one of them is retried).
C26_StatusRetried ==
    /\ call.kind = "withRetry"
    /\ call.opts.shouldRetry = "isRetryableK8sError"
    /\ call.state = "thrown"
    /\ call.invocations <= call.opts.maxRetries
    => \A e \in call.lastError :
            \A code \in {429, 500, 502, 503, 504} : ~isK8sStatusCode(e, code)

\* C27: no create of the tenancy builder fails on the cluster's "already
\* exists" answer: createNamespace never throws an error that carries status
\* 409.
C27_ConflictIsSuccess ==
    call.kind = "createNamespace" /\ call.pc = "rejected" =>
        \A e \in call.lastError : ~isK8sStatusCode(e, 409)

\* C28: whenever createNamespace returns successfully, the namespace exists
\* with its resource quota, limit range and network policy, also when the
\* namespace existed before the call.
C28_ResolvedIsIsolated ==
    call.kind = "createNamespace" /\ call.pc = "resolved" =>
        \A k \in 1..Len(TenancySteps) : call.objects[TenancySteps[k]]

\* C29: a deadline created with budget 0 is expired at once, its check throws
\* and its wrap rejects with a TimeoutError at the instant of the call; for any
\* budget, expired holds exactly when remaining is 0, check throws exactly when
\* expired, remaining never increases, and a wrap called before the deadline
\* yields the inner operation's outcome when that settles before the deadline
\* and a TimeoutError at the deadline when it settles after it.
C29_DeadlineHandle ==
    /\ [](call.kind = "createDeadline" =>
            /\ expired(call) <=> remaining(call) = 0
            /\ call.deadlineMs = 0 => expired(call)
            /\ call.checked.made =>
                (call.checked.threw <=> call.checked.at >= call.absoluteDeadline)
            /\ call.wrapped.pc = "done" =>
                /\ call.wrapped.startedAt >= call.absoluteDeadline =>
                    /\ call.wrapped.result = "TimeoutError"
                    /\ call.wrapped.endedAt = call.wrapped.startedAt
                /\ /\ call.wrapped.startedAt < call.absoluteDeadline
                   /\ call.wrapped.settleAt < call.absoluteDeadline
                   => /\ call.wrapped.result = call.wrapped.inner
                      /\ call.wrapped.endedAt = call.wrapped.settleAt
                /\ /\ call.wrapped.startedAt < call.absoluteDeadline
                   /\ call.wrapped.settleAt > call.absoluteDeadline
                   => /\ call.wrapped.result = "TimeoutError"
                      /\ call.wrapped.endedAt = call.absoluteDeadline)
    /\ [][call.kind = "createDeadline" => remaining(call') <= remaining(call)]_vars

\* a deadline of budget 0 whose check threw and whose wrap rejected at the
\* instant of the call, the inner operation settling only later
C29_Witness ==
    /\ call.kind = "createDeadline"
    /\ call.deadlineMs = 0
    /\ call.checked.made /\ call.checked.threw
    /\ call.wrapped.pc = "done"
    /\ call.wrapped.result = "TimeoutError"
    /\ call.wrapped.endedAt = call.wrapped.startedAt
    /\ call.wrapped.settleAt > call.wrapped.startedAt

\* C30: the audit log is append-only with strictly increasing ids: the ids of
\* the entries increase along the log; every step leaves the log as it is or
\* appends exactly one entry, whose id is greater than every id before it; a
\* record call appends exactly one entry; getEntries and getStats leave the log
\* unchanged.
C30_AppendOnly ==
    /\ [](\A j, k \in 1..Len(audit) : j < k => audit[j].id < audit[k].id)
    /\ [][audit' # audit =>
            /\ Len(audit') = Len(audit) + 1
            /\ SubSeq(audit', 1, Len(audit)) = audit
            /\ \A k \in 1..Len(audit) : audit[k].id < audit'[Len(audit')].id]_vars
    /\ [][call.kind = "auditLogger" =>
            /\ Len(call'.stamps) # Len(call.stamps) => Len(audit') = Len(audit) + 1
            /\ call'.asked.via # "none" => audit' = audit]_vars

\* two entries were recorded at the same instant, and both reads were made
\* after the second
C30_Witness ==
    /\ call.kind = "auditLogger"
    /\ Len(audit) = 2
    /\ call.stamps[1] = call.stamps[2]
    /\ audit[2].id = 2
    /\ Len(call.results) = 2
    /\ call.stats.totalActions = 2

\* C31: the result of an audit query is ordered most-recent first: of any two
\* entries in it, the one recorded later (the higher id) comes first, also
\* when both were recorded in the same clock tick.
C31_RecentFirst ==
    call.kind = "auditLogger" =>
        \A j, k \in 1..Len(call.results) :
            j < k => call.results[j].id > call.results[k].id

\* C32: the result of an audit query holds only entries that match every
\* filter supplied (storeId and action) and no more entries than the limit
\* supplied, for every limit >= 0; GET /api/audit applies its storeId, action
\* and limit parameters in this way, with a limit of 50 when none is given.
C32_FiltersAndLimit ==
    call.kind = "auditLogger" /\ call.asked.via \in {"getEntries", "GET /api/audit"} =>
        /\ \A k \in 1..Len(call.results) :
            /\ call.asked.storeId # Null => Some(call.results[k].storeId) = call.asked.storeId
            /\ call.asked.action # Null => Some(call.results[k].action) = call.asked.action
        /\ call.asked.via = "getEntries" =>
                \A n \in call.asked.limit : Len(call.results) <= n
        /\ call.asked.via = "GET /api/audit" =>
                /\ call.asked.limit = Null => Len(call.results) <= DefaultLimit
                /\ call.asked.limit = Some("0") => Len(call.results) = 0
                /\ call.asked.limit = Some("1") => Len(call.results) <= 1

C34_UpdateFrame ==
    [][call.kind = "StoreRepository" /\ call'.op.name = "update" /\ call'.now = call.now =>
        LET id == call'.op.id
            updates == call'.op.updates
            before == toStore(call.table[id])
            after == toStore(call'.table[id])
        IN  IF call.table[id] = NoRow
            THEN call'.table = call.table /\ call'.returned = Null
            ELSE /\ \A i \in RepoIds \ {id} : call'.table[i] = call.table[i]
                 /\ call'.returned = Some(after)
                 /\ \A f \in DOMAIN before :
                        after[f] =
                            IF f = "updatedAt" THEN call.now
                            ELSE IF f \in {"id", "name", "namespace", "engine", "createdAt"}
                            THEN before[f]
                            ELSE IF f \in DOMAIN updates THEN updates[f]
                            ELSE before[f]]_vars

\* a record created at instant 0 was updated at instant 1 with a phase given
\* without a value: the phase is cleared, updatedAt moved, createdAt did not
C34_Witness ==
    /\ call.kind = "StoreRepository"
    /\ call.op.name = "update"
    /\ call.op.updates = [phase |-> Null]
    /\ call.table[call.op.id] # NoRow
    /\ call.table[call.op.id].phase = Null
    /\ call.table[call.op.id].created_at = 0
    /\ call.table[call.op.id].updated_at = 1

\* C35: canTransitionTo(current, target) is true for exactly the 10 pairs of
\* the state-machine table and false for the 26 others, among them every pair
\* from deleted and every pair of a status with itself; isTerminalState is
\* true exactly for the status without an allowed transition, and there is one
\* such status.
C35_TransitionTable ==
    LET Table == {<<"pending", "provisioning">>, <<"pending", "failed">>,
                  <<"pending", "deleting">>, <<"provisioning", "ready">>,
                  <<"provisioning", "failed">>, <<"ready", "deleting">>,
                  <<"failed", "provisioning">>, <<"failed", "deleting">>,
                  <<"deleting", "failed">>, <<"deleting", "deleted">>}
        Statuses == {"pending", "provisioning", "ready", "failed", "deleting", "deleted"}
    IN  call.kind = "canTransitionTo" =>
            /\ call.target # "none" => (call.allowed <=> <<call.from, call.target>> \in Table)
            /\ call.terminal <=> ~\E pair \in Table : pair[1] = call.current
            /\ \A k \in 1..(Len(call.walk) - 1) : <<call.walk[k], call.walk[k + 1]>> \in Table
            /\ \A s, t \in Statuses : canTransitionTo(s, t) <=> <<s, t>> \in Table
            /\ Cardinality({pair \in Statuses \X Statuses : canTransitionTo(pair[1], pair[2])}) = 10
            /\ Cardinality({pair \in Statuses \X Statuses : ~canTransitionTo(pair[1], pair[2])}) = 26
            /\ \A s \in Statuses : ~canTransitionTo("deleted", s) /\ ~canTransitionTo(s, s)
            /\ \A s \in Statuses : isTerminalState(s) <=> ~\E pair \in Table : pair[1] = s
            /\ Cardinality({s \in Statuses : isTerminalState(s)}) = 1

\* a failed store was retried and became ready, and the transition ready to
\* provisioning has just been refused
C35_Witness ==
    /\ call.kind = "canTransitionTo"
    /\ call.walk = <<"failed", "provisioning", "ready">>
    /\ call.from = "ready" /\ call.target = "provisioning"
    /\ ~call.allowed
    /\ ~call.terminal

\* C36: operations on one store never affect another: a step of the pipeline
\* run of store A, and a step of a delete request for store A, leave the
\* record and the namespace of every other store as they were.
C36_StoresIsolated ==
    [][/\ \A a \in Ids :
            pipe'[a] # pipe[a] =>
                \A b \in Ids \ {a} :
                    /\ db'[b] = db[b]
                    /\ ns'[<<"store-", b>>] = ns[<<"store-", b>>]
       /\ \A d \in DeleteReqs :
            dreq'[d] # dreq[d] =>
                \A b \in Ids \ {dreq[d].storeId, dreq'[d].storeId} :
                    /\ db'[b] = db[b]
                    /\ ns'[<<"store-", b>>] = ns[<<"store-", b>>]]_vars

\* two stores were provisioned side by side: one is ready with its namespace,
\* the other failed and its namespace is being removed or gone
C36_Witness ==
    \E a, b \in FreshIds :
        /\ a # b
        /\ Exists(a) /\ db[a].status = "ready" /\ ns[<<"store-", a>>] = "active"
        /\ Exists(b) /\ db[b].status = "failed" /\ ns[<<"store-", b>>] # "active"
        /\ pipe[a].pc = "done" /\ pipe[b].pc = "done"

\* C37: in every state of a store record the checkpoints are consistent:
\* wordpressReady implies mysqlReady, phase application implies mysqlReady,
\* phase validation implies wordpressReady, status ready implies both flags;
\* and a flag that is true is never set back to false.
C37_CheckpointsConsistent ==
    /\ [](\A i \in Ids : Exists(i) =>
            /\ db[i].wordpress_ready => db[i].mysql_ready
            /\ db[i].phase = Some("application") => db[i].mysql_ready
            /\ db[i].phase = Some("validation") => db[i].wordpress_ready
            /\ db[i].status = "ready" => db[i].mysql_ready /\ db[i].wordpress_ready)
    /\ [][\A i \in Ids : Exists(i) =>
            /\ db[i].mysql_ready => db'[i].mysql_ready
            /\ db[i].wordpress_ready => db'[i].wordpress_ready]_vars

\* a run that failed in its application phase: the record is failed and keeps
\* mysqlReady without wordpressReady
C37_Witness ==
    \E i \in FreshIds :
        /\ Exists(i)
        /\ db[i].status = "failed"
        /\ db[i].error_phase = Some("application")
        /\ db[i].mysql_ready /\ ~db[i].wordpress_ready
        /\ pipe[i].pc = "done"

\* C39: for each store id the audit log holds store.create.started before
\* any store.create.succeeded or store.create.failed entry of that id, and
\* the run of an id records at most one of succeeded and failed: never both,
\* never one of them twice
C39_CreateAuditOrder ==
    \A i \in Ids :
        LET outcomes == {j \in 1..Len(audit) :
                            /\ audit[j].storeId = i
                            /\ audit[j].action \in {STORE_CREATE_SUCCEEDED,
                                                    STORE_CREATE_FAILED}}
        IN /\ Cardinality(outcomes) <= 1
           /\ \A j \in outcomes : \E k \in 1..(j - 1) :
                /\ audit[k].storeId = i
                /\ audit[k].action = STORE_CREATE_STARTED

\* one run recorded its success and another its failure, both runs are over
C39_Witness ==
    \E i, k \in FreshIds :
        /\ pipe[i].pc = "done" /\ pipe[k].pc = "done"
        /\ \E j \in 1..Len(audit) :
             audit[j].storeId = i /\ audit[j].action = STORE_CREATE_SUCCEEDED
        /\ \E j \in 1..Len(audit) :
             audit[j].storeId = k /\ audit[j].action = STORE_CREATE_FAILED

\* C40: a readiness wait returns only after a read of the workload reported
\* readyReplicas >= its desired replicas (1 when none is given); a read that
\* threw or was not ready only leads to another poll; the wait throws not
\* ready once its timeout has elapsed, and only then; it always ends with
\* one of the two outcomes
C40_WaitTerminates ==
    /\ [](call.outcome = "returned" =>
            /\ call.polls > 0
            /\ call.lastRead.ok
            /\ \E n \in call.lastRead.readyReplicas :
                 /\ \A d \in call.lastRead.replicas : n >= d
                 /\ n >= 1)
    /\ [][/\ (call'.polls = call.polls + 1 /\ ~call'.stalled
                                             /\ ~isReady(call'.lastRead)) =>
                call'.outcome = "waiting"
          /\ (call.outcome = "waiting" /\ call'.outcome = "thrown") =>
                (call.elapsed >= call.timeoutMs /\ call'.polls = call.polls)
          /\ (call.outcome = "waiting" /\ call.elapsed >= call.timeoutMs) =>
                call'.outcome = "thrown"
          /\ call.outcome # "waiting" => call' = call]_vars
    /\ <>(call.outcome \in {"returned", "thrown"})

\* C38: after a run has marked its record failed, in particular after the
\* deadline expired while a deploy or readiness step was in flight, the run
\* issues no further create or readiness read against the cluster: the only
\* cluster operation it performs afterwards is the cleanup namespace deletion
C38_NoCallsAfterFailed ==
    (call.kind = "deadline.wrap" /\ call.marked) =>
        \A k \in 1..Len(call.after) : call.after[k] = "deleteNamespace"

====
